---------------------------- MODULE Spec2Model ----------------------------
(***************************************************************************)
(* A model of the template engine: the context-sensitive lexer             *)
(* (src/src/lexer.rs), the recursive-descent parser (src/src/parser.rs,    *)
(* src/src/parser_helpers.rs, src/src/math.rs), the value type             *)
(* (src/src/value.rs) and the tree-walking evaluator (src/src/node.rs).    *)
(*                                                                         *)
(* Representation.  A string is a sequence of one-byte cells, each cell a  *)
(* one-character TLA+ string; a two-byte character is its lead cell        *)
(* followed by the continuation cell CONT, so that a byte offset of the    *)
(* Rust code is an index into the sequence.  Option<T> is a sequence of    *)
(* length 0 (None) or 1 (Some).  A Result is a record with field r:        *)
(* "ok", "err" (with the error in e) or "panic" (a process-terminating     *)
(* fault: panic!, unwrap on None, unimplemented!, a slice off a character  *)
(* boundary).                                                              *)
(***************************************************************************)
EXTENDS Integers, Sequences, FiniteSets, TLC

VARIABLES
    src,        \* the template source handed to Parser::parse_input
    variables,  \* the caller's variable map handed to Node::evaluate
    functions,  \* the names of the caller's functions map
    phase,      \* "input" -> "parsed" -> "rendered"
    parsed,     \* the Result of Parser::parse_input(src)
    rendered,   \* the Result of Node::evaluate on the parsed tree
    lexer,      \* a Lexer over src whose yield_token is called directly
    yielded,    \* what each call of lexer.yield_token returned, in order
    references, \* what Node::referenced_vars returned on the tree, once called
    input       \* the shape src or the tree was drawn from (never read by the code)

vars ==
    <<src, variables, functions, phase, parsed, rendered, lexer, yielded,
      references, input>>

-----------------------------------------------------------------------------
(* Characters *)

CONT == "cont"

LowerLetters ==
    {"a","b","c","d","e","f","g","h","i","j","k","l","m",
     "n","o","p","q","r","s","t","u","v","w","x","y","z"}

UpperLetters == {"A", "B", "I", "X", "Z"}

Digits == {"0","1","2","3","4","5","6","7","8","9"}

\* The two-byte characters of the model: a letter and a space outside ASCII.
WideLetter == "u00e9"

WideSpace == "u00a0"

\* char::len_utf8
len_utf8(c) == IF c \in {WideLetter, WideSpace} THEN 2 ELSE 1

\* 'a'..='z' | 'A'..='Z' | '_'
IsIdentStart(c) == c \in LowerLetters \cup UpperLetters \cup {"_"}

\* char::is_alphanumeric (Unicode Alphabetic or Numeric)
is_alphanumeric(c) == c \in LowerLetters \cup UpperLetters \cup Digits \cup {WideLetter}

\* char::is_ascii_digit
is_ascii_digit(c) == c \in Digits

\* char::is_whitespace narrowed to the space character.
is_whitespace_space_only(c) == c = " "

\* char::is_whitespace (Unicode White_Space)
is_whitespace(c) == c \in {" ", "\t", "\n", WideSpace}

\* The closures handed to advance_while.
Pred(func, c) ==
    CASE func = "text"       -> c # "{"
      [] func = "identifier" -> c = "_" \/ is_alphanumeric(c)
      [] func = "number"     -> c = "." \/ is_ascii_digit(c)
      [] func = "whitespace" -> is_whitespace(c)

-----------------------------------------------------------------------------
(* Values: src/src/value.rs *)

\* OwnedValue::String
StringValue(s) == [k |-> "String", s |-> s]

\* OwnedValue::Number.  An f64 is modelled by a sign and a decimal
\* m / 10^e with no trailing zero in the fraction; the sign is kept apart so
\* that -0.0 differs from 0.0 in its rendering as it does for an f64.
NumberValue(neg, m, e) ==
    [k |-> "Number", cls |-> "finite", neg |-> neg, m |-> m, e |-> e]

\* The infinities and NaN that f64 division produces.
Infinity(neg) == [k |-> "Number", cls |-> "inf", neg |-> neg, m |-> 0, e |-> 0]

NaN == [k |-> "Number", cls |-> "nan", neg |-> FALSE, m |-> 0, e |-> 0]

\* OwnedValue::Boolean
BooleanValue(b) == [k |-> "Boolean", b |-> b]

\* OwnedValue::Array
ArrayValue(vec) == [k |-> "Array", vec |-> vec]

RECURSIVE Normalize(_, _, _)
Normalize(neg, m, e) ==
    IF e > 0 /\ m % 10 = 0 THEN Normalize(neg, m \div 10, e - 1)
    ELSE NumberValue(neg, m, e)

Num(n) == IF n < 0 THEN NumberValue(TRUE, -n, 0) ELSE NumberValue(FALSE, n, 0)

DigitOf(c) ==
    CASE c = "0" -> 0 [] c = "1" -> 1 [] c = "2" -> 2 [] c = "3" -> 3
      [] c = "4" -> 4 [] c = "5" -> 5 [] c = "6" -> 6 [] c = "7" -> 7
      [] c = "8" -> 8 [] c = "9" -> 9

DigitChar(d) == <<"0","1","2","3","4","5","6","7","8","9">>[d + 1]

RECURSIVE ParseDigits(_, _, _, _)
\* Reads the lexeme left to right: acc is the mantissa so far, frac the
\* number of digits read after the point (-1 before the point).
ParseDigits(s, acc, frac, seen) ==
    IF s = <<>> THEN
        IF seen THEN <<Normalize(FALSE, acc, IF frac < 0 THEN 0 ELSE frac)>> ELSE <<>>
    ELSE IF Head(s) = "." THEN
        IF frac >= 0 THEN <<>> ELSE ParseDigits(Tail(s), acc, 0, seen)
    ELSE IF Head(s) \notin Digits THEN <<>>
    ELSE ParseDigits(Tail(s), acc * 10 + DigitOf(Head(s)),
                     IF frac < 0 THEN frac ELSE frac + 1, TRUE)

\* <f64 as FromStr>::from_str on a lexeme over [0-9.]: it succeeds iff the
\* lexeme has at least one digit and at most one point.  A slice with another
\* character is taken only after a failed call left token_start_byte behind,
\* and then holds the character that call rejected (never a sign, a letter
\* or an exponent alone), on which from_str fails.
ParseF64(s) == ParseDigits(s, 0, -1, FALSE)

RECURSIVE Pow10(_)
Pow10(n) == IF n <= 0 THEN 1 ELSE 10 * Pow10(n - 1)

Max(a, b) == IF a >= b THEN a ELSE b

\* The signed mantissa of a finite number scaled to e decimals.
Scaled(x, e) == (IF x.neg THEN -x.m ELSE x.m) * Pow10(e - x.e)

\* f64 addition.  An exact zero sum is -0.0 only when both operands are
\* negative (round to nearest).
AddF64(x, y) ==
    IF x.cls = "nan" \/ y.cls = "nan" THEN NaN
    ELSE IF x.cls = "inf" /\ y.cls = "inf" THEN
        IF x.neg = y.neg THEN x ELSE NaN
    ELSE IF x.cls = "inf" THEN x
    ELSE IF y.cls = "inf" THEN y
    ELSE LET e == Max(x.e, y.e)
             sum == Scaled(x, e) + Scaled(y, e)
         IN IF sum = 0 THEN NumberValue(x.neg /\ y.neg, 0, 0)
            ELSE IF sum < 0 THEN Normalize(TRUE, -sum, e)
            ELSE Normalize(FALSE, sum, e)

\* f64 negation: flips the sign bit.
NegF64(x) == IF x.cls = "nan" THEN NaN ELSE [x EXCEPT !.neg = ~x.neg]

\* f64 multiplication.
MulF64(x, y) ==
    IF x.cls = "nan" \/ y.cls = "nan" THEN NaN
    ELSE IF x.cls = "inf" \/ y.cls = "inf" THEN
        IF (x.cls = "finite" /\ x.m = 0) \/ (y.cls = "finite" /\ y.m = 0)
        THEN NaN ELSE Infinity(x.neg # y.neg)
    ELSE Normalize(x.neg # y.neg, x.m * y.m, x.e + y.e)

\* The number of decimals kept of a quotient that has no finite decimal
\* expansion.
QuotientDecimals == 4

\* f64 division.  Division by zero gives an infinity or NaN; a quotient is
\* kept to QuotientDecimals decimals.
DivF64(x, y) ==
    IF x.cls = "nan" \/ y.cls = "nan" THEN NaN
    ELSE IF x.cls = "inf" THEN
        IF y.cls = "inf" THEN NaN ELSE Infinity(x.neg # y.neg)
    ELSE IF y.cls = "inf" THEN NumberValue(x.neg # y.neg, 0, 0)
    ELSE IF y.m = 0 THEN
        IF x.m = 0 THEN NaN ELSE Infinity(x.neg # y.neg)
    ELSE LET e == Max(x.e, y.e)
             a == x.m * Pow10(e - x.e)
             b == y.m * Pow10(e - y.e)
         IN Normalize(x.neg # y.neg, (a * Pow10(QuotientDecimals)) \div b,
                      QuotientDecimals)

\* f64 == (PartialEq): NaN differs from itself, -0.0 equals 0.0.
EqF64(x, y) ==
    IF x.cls = "nan" \/ y.cls = "nan" THEN FALSE
    ELSE IF x.cls = "inf" \/ y.cls = "inf" THEN x.cls = y.cls /\ x.neg = y.neg
    ELSE (x.m = 0 /\ y.m = 0) \/ (x.neg = y.neg /\ x.m = y.m /\ x.e = y.e)

\* `f64 as usize`: a saturating cast that truncates; NaN and negatives give 0.
AsUsize(x) ==
    IF x.cls = "nan" \/ x.neg THEN 0
    ELSE IF x.cls = "inf" THEN -1
    ELSE x.m \div Pow10(x.e)

RECURSIVE NatToString(_)
NatToString(n) ==
    IF n < 10 THEN <<DigitChar(n)>> ELSE NatToString(n \div 10) \o <<DigitChar(n % 10)>>

RECURSIVE PadLeft(_, _)
PadLeft(s, width) == IF Len(s) >= width THEN s ELSE PadLeft(<<"0">> \o s, width)

\* <f64 as Display>::fmt
F64ToString(x) ==
    IF x.cls = "nan" THEN <<"N", "a", "N">>
    ELSE (IF x.neg THEN <<"-">> ELSE <<>>) \o
         (IF x.cls = "inf" THEN <<"i", "n", "f">>
          ELSE IF x.e = 0 THEN NatToString(x.m)
          ELSE NatToString(x.m \div Pow10(x.e)) \o <<".">>
               \o PadLeft(NatToString(x.m % Pow10(x.e)), x.e))

RECURSIVE ValueEq(_, _), to_string(_), JoinStrings(_, _), Repeat(_, _)

\* #[derive(PartialEq)] for OwnedValue
ValueEq(a, b) ==
    /\ a.k = b.k
    /\ CASE a.k = "String"  -> a.s = b.s
         [] a.k = "Number"  -> EqF64(a, b)
         [] a.k = "Boolean" -> a.b = b.b
         [] a.k = "Array"   -> /\ Len(a.vec) = Len(b.vec)
                               /\ \A i \in 1..Len(a.vec) : ValueEq(a.vec[i], b.vec[i])

\* OwnedValue::is_truthy
is_truthy(v) ==
    CASE v.k = "String"  -> v.s # <<>>
      [] v.k = "Number"  -> ~EqF64(v, NumberValue(FALSE, 0, 0))
      [] v.k = "Boolean" -> v.b
      [] v.k = "Array"   -> v.vec # <<>>

\* [String]::join
JoinStrings(strings, sep) ==
    IF strings = <<>> THEN <<>>
    ELSE IF Len(strings) = 1 THEN strings[1]
    ELSE strings[1] \o sep \o JoinStrings(Tail(strings), sep)

\* <OwnedValue as ToString>::to_string with the elements of an array joined
\* by a comma alone.
to_string_comma(v) ==
    CASE v.k = "String"  -> v.s
      [] v.k = "Number"  -> F64ToString(v)
      [] v.k = "Boolean" -> IF v.b THEN <<"t","r","u","e">> ELSE <<"f","a","l","s","e">>
      [] v.k = "Array"   ->
            JoinStrings([i \in 1..Len(v.vec) |-> to_string(v.vec[i])], <<",">>)

\* <OwnedValue as ToString>::to_string
to_string(v) ==
    CASE v.k = "String"  -> v.s
      [] v.k = "Number"  -> F64ToString(v)
      [] v.k = "Boolean" -> IF v.b THEN <<"t","r","u","e">> ELSE <<"f","a","l","s","e">>
      [] v.k = "Array"   ->
            JoinStrings([i \in 1..Len(v.vec) |-> to_string(v.vec[i])], <<",", " ">>)

\* str::repeat
Repeat(s, n) == IF n <= 0 THEN <<>> ELSE s \o Repeat(s, n - 1)

VOk(v)  == [r |-> "ok", v |-> v]
OperationError == [e |-> "OperationError"]
VErr(e) == [r |-> "err", e |-> e]

\* impl Add<&OwnedValue> for &OwnedValue
AddValues(lhs, rhs) ==
    CASE lhs.k = "Number" /\ rhs.k = "Number" -> VOk(AddF64(lhs, rhs))
      [] lhs.k = "Number" /\ rhs.k = "String" ->
            VOk(StringValue(F64ToString(lhs) \o rhs.s))
      [] lhs.k = "String" /\ rhs.k = "Number" ->
            VOk(StringValue(lhs.s \o F64ToString(rhs)))
      [] lhs.k = "String" /\ rhs.k = "String" -> VOk(StringValue(lhs.s \o rhs.s))
      [] lhs.k = "Array" /\ rhs.k = "Array" -> VOk(ArrayValue(lhs.vec \o rhs.vec))
      [] OTHER -> VErr(OperationError)

\* impl Sub<&OwnedValue> for &OwnedValue
SubValues(lhs, rhs) ==
    CASE lhs.k = "Number" /\ rhs.k = "Number" -> VOk(AddF64(lhs, NegF64(rhs)))
      [] OTHER -> VErr(OperationError)

\* impl Mul<&OwnedValue> for &OwnedValue.  A repeat count that overflows the
\* capacity (the cast of an infinity) panics.
MulValues(lhs, rhs) ==
    CASE lhs.k = "Number" /\ rhs.k = "Number" -> VOk(MulF64(lhs, rhs))
      [] lhs.k = "String" /\ rhs.k = "Number" ->
            IF AsUsize(rhs) < 0 /\ lhs.s # <<>> THEN [r |-> "panic"]
            ELSE VOk(StringValue(Repeat(lhs.s, AsUsize(rhs))))
      [] lhs.k = "Number" /\ rhs.k = "String" ->
            IF AsUsize(lhs) < 0 /\ rhs.s # <<>> THEN [r |-> "panic"]
            ELSE VOk(StringValue(Repeat(rhs.s, AsUsize(lhs))))
      [] OTHER -> VErr(OperationError)

\* impl Div<&OwnedValue> for &OwnedValue
DivValues(lhs, rhs) ==
    CASE lhs.k = "Number" /\ rhs.k = "Number" -> VOk(DivF64(lhs, rhs))
      [] OTHER -> VErr(OperationError)

-----------------------------------------------------------------------------
(* Lexer: src/src/lexer.rs *)

\* A byte offset lies on a character boundary of src (str::is_char_boundary).
IsBoundary(i) ==
    /\ 0 <= i /\ i <= Len(src)
    /\ (i < Len(src) => src[i + 1] # CONT)

\* &self.src[a..b]
Slice(a, b) == SubSeq(src, a + 1, b)

SliceOk(a, b) == a <= b /\ IsBoundary(a) /\ IsBoundary(b)

\* Lexer::new.  The field panicked is not a field of the struct: it records
\* that a slice or an unwrap inside the lexer has panicked.
LexerNew ==
    [token_start_byte |-> 0, cursor |-> 0, is_inside_template |-> FALSE,
     panicked |-> FALSE]

\* Lexer::peek
peek(lx) ==
    IF lx.cursor < Len(src) THEN <<src[lx.cursor + 1]>> ELSE <<>>

\* `let x = value; k(x)`: the value is computed once and named.
Let(value, k(_)) == k(value)

\* The cursor stepped by one byte, whatever next_char is.
Step_one_byte(lx, next_char) ==
    IF next_char # <<>> THEN [lx EXCEPT !.cursor = @ + 1] ELSE lx

\* The cursor stepped over next_char, if there is one.
Step(lx, next_char) ==
    IF next_char # <<>> THEN [lx EXCEPT !.cursor = @ + len_utf8(next_char[1])]
    ELSE lx

\* Lexer::get_next_char
get_next_char(lx) ==
    IF lx.panicked \/ ~IsBoundary(lx.cursor) THEN
        [c |-> <<>>, lx |-> [lx EXCEPT !.panicked = TRUE]]
    ELSE Let(peek(lx), LAMBDA next_char :
            [c |-> next_char, lx |-> Step(lx, next_char)])

\* Lexer::get_if_is
get_if_is(lx, c) ==
    IF lx.panicked \/ ~IsBoundary(lx.cursor) THEN
        [c |-> <<>>, lx |-> [lx EXCEPT !.panicked = TRUE]]
    ELSE Let(peek(lx), LAMBDA next_char :
            IF next_char # <<>> /\ next_char[1] # c THEN [c |-> <<>>, lx |-> lx]
            ELSE [c |-> next_char, lx |-> Step(lx, next_char)])

\* Lexer::end_token
end_token(lx) == [lx EXCEPT !.token_start_byte = lx.cursor]

\* Lexer::get_slice
get_slice(lx) == Slice(lx.token_start_byte, lx.cursor)

\* Lexer::backup: steps the cursor back over the last character of the
\* current slice; unwrap panics when the slice is empty.
backup(lx) ==
    IF lx.panicked \/ ~SliceOk(lx.token_start_byte, lx.cursor)
       \/ lx.token_start_byte = lx.cursor
    THEN [lx EXCEPT !.panicked = TRUE]
    ELSE LET last_char == IF src[lx.cursor] = CONT THEN src[lx.cursor - 1]
                          ELSE src[lx.cursor]
         IN [lx EXCEPT !.cursor = @ - len_utf8(last_char)]

RECURSIVE advance_while(_, _)
\* Lexer::advance_while
advance_while(lx, func) ==
    Let(get_next_char(lx), LAMBDA g :
        IF g.c = <<>> THEN g.lx
        ELSE IF ~Pred(func, g.c[1]) THEN backup(g.lx)
        ELSE advance_while(g.lx, func))

\* Lexer::consume_whitespace
consume_whitespace(lx) == end_token(advance_while(lx, "whitespace"))

\* Tokens
Text(s)          == [t |-> "Text", s |-> s]
TemplateOpen     == [t |-> "TemplateOpen"]
TemplateClose    == [t |-> "TemplateClose"]
OpeningParen     == [t |-> "OpeningParen"]
ClosingParen     == [t |-> "ClosingParen"]
OpeningSqBracket == [t |-> "OpeningSqBracket"]
ClosingSqBracket == [t |-> "ClosingSqBracket"]
Comma            == [t |-> "Comma"]
Exclamation      == [t |-> "Exclamation"]
Keyword(kw)      == [t |-> "Keyword", kw |-> kw]
Identifier(s)    == [t |-> "Identifier", s |-> s]
Literal(v)       == [t |-> "Literal", v |-> v]
Operator(o)      == [t |-> "Operator", o |-> o]

LexTok(tok, lx) == [r |-> "tok", tok |-> tok, lx |-> lx]
LexErr(e, lx)   == [r |-> "err", e |-> e, lx |-> lx]

\* The keyword an identifier spells, or the identifier.
KeywordOrIdentifier(identifier) ==
    CASE identifier = <<"i","f">>         -> Keyword("If")
      [] identifier = <<"e","l","i","f">> -> Keyword("Elif")
      [] identifier = <<"e","l","s","e">> -> Keyword("Else")
      [] identifier = <<"f","o","r">>     -> Keyword("For")
      [] identifier = <<"i","n">>         -> Keyword("In")
      [] OTHER                            -> Identifier(identifier)

\* Lexer::yield_identifier
yield_identifier(lx) ==
    Let(advance_while(lx, "identifier"), LAMBDA l1 :
        IF ~SliceOk(l1.token_start_byte, l1.cursor)
        THEN [r |-> "panic", lx |-> [l1 EXCEPT !.panicked = TRUE]]
        ELSE LexTok(KeywordOrIdentifier(get_slice(l1)), l1))

\* Lexer::yield_number
yield_number(lx) ==
    Let(advance_while(lx, "number"), LAMBDA l1 :
        IF ~SliceOk(l1.token_start_byte, l1.cursor)
        THEN [r |-> "panic", lx |-> [l1 EXCEPT !.panicked = TRUE]]
        ELSE Let(ParseF64(get_slice(l1)), LAMBDA number :
                IF number = <<>> THEN LexErr([e |-> "NumberParseError"], l1)
                ELSE LexTok(Literal(number[1]), l1)))

\* What an escape sequence stands for, with `\n` standing for the letter n.
Escape_letter_n(next, quote) ==
    CASE next = "n"  -> <<"n">>
      [] next = "\\" -> <<"\\">>
      [] next = "\n" -> <<>>
      [] OTHER       -> <<quote>>

\* What an escape sequence stands for.
Escape(next, quote) ==
    CASE next = "n"  -> <<"\n">>
      [] next = "\\" -> <<"\\">>
      [] next = "\n" -> <<>>
      [] OTHER       -> <<quote>>

RECURSIVE yield_string_loop(_, _, _)
\* The loop of Lexer::yield_string.
yield_string_loop(lx, quote, string) ==
    Let(get_next_char(lx), LAMBDA g :
        IF g.lx.panicked THEN [r |-> "panic", lx |-> g.lx]
        ELSE IF g.c = <<>> THEN LexErr([e |-> "UnexpectedEOF"], g.lx)
        ELSE IF g.c[1] = "\\" THEN
            Let(get_next_char(g.lx), LAMBDA h :
                IF h.lx.panicked THEN [r |-> "panic", lx |-> h.lx]
                ELSE IF h.c = <<>> THEN LexErr([e |-> "UnexpectedEOF"], h.lx)
                ELSE IF h.c[1] \notin {"n", "\\", "\n", quote}
                THEN LexErr([e |-> "UnrecognizedEscape", c |-> h.c[1]], h.lx)
                ELSE IF ~SliceOk(h.lx.token_start_byte, h.lx.cursor - 2)
                THEN [r |-> "panic", lx |-> [h.lx EXCEPT !.panicked = TRUE]]
                ELSE yield_string_loop(
                        end_token(h.lx), quote,
                        string \o Slice(h.lx.token_start_byte, h.lx.cursor - 2)
                               \o Escape(h.c[1], quote)))
        ELSE IF g.c[1] = quote THEN
            IF ~SliceOk(g.lx.token_start_byte, g.lx.cursor - 1)
            THEN [r |-> "panic", lx |-> [g.lx EXCEPT !.panicked = TRUE]]
            ELSE LexTok(Literal(StringValue(
                            string \o Slice(g.lx.token_start_byte, g.lx.cursor - 1))),
                        g.lx)
        ELSE yield_string_loop(g.lx, quote, string))

\* Lexer::yield_string
yield_string(lx, quote) == yield_string_loop(end_token(lx), quote, <<>>)

\* Lexer::expect_char followed by the token it guards.
expect_char(lx, expected_char, tok) ==
    Let(get_next_char(lx), LAMBDA g :
        IF g.c = <<>> THEN LexErr([e |-> "UnexpectedEOF"], g.lx)
        ELSE IF g.c[1] = expected_char THEN LexTok(tok, g.lx)
        ELSE LexErr([e |-> "UnexpectedCharacter", c |-> g.c[1]], g.lx))

RECURSIVE yield_token_match(_), yield_token_char(_, _, _)
\* Lexer::yield_token up to, and without, the closing end_token().
yield_token_match(lx) ==
    Let(get_next_char(lx), LAMBDA g :
        IF g.c = <<>> THEN [r |-> "none", lx |-> g.lx]
        ELSE yield_token_char(g.c[1], g.lx, g.lx.is_inside_template))

\* The match on next_char of Lexer::yield_token; l is the lexer after
\* get_next_char and inside its is_inside_template.
yield_token_char(next_char, l, inside) ==
    IF next_char = "{" /\ ~inside THEN
        Let(get_if_is(l, "{"), LAMBDA b :
            IF b.c = <<>> THEN yield_token_match(b.lx)
            ELSE LexTok(TemplateOpen, [b.lx EXCEPT !.is_inside_template = TRUE]))
    ELSE IF next_char = "}" /\ inside THEN
        Let(expect_char(l, "}", TemplateClose), LAMBDA x :
            IF x.r = "tok" THEN [x EXCEPT !.lx.is_inside_template = FALSE] ELSE x)
    ELSE IF IsIdentStart(next_char) /\ inside THEN yield_identifier(l)
    ELSE IF (next_char \in Digits \/ next_char = ".") /\ inside THEN yield_number(l)
    ELSE IF next_char \in {"\"", "'"} THEN yield_string(l, next_char)
    ELSE IF next_char = "(" /\ inside THEN LexTok(OpeningParen, l)
    ELSE IF next_char = ")" /\ inside THEN LexTok(ClosingParen, l)
    ELSE IF next_char = "[" /\ inside THEN LexTok(OpeningSqBracket, l)
    ELSE IF next_char = "]" /\ inside THEN LexTok(ClosingSqBracket, l)
    ELSE IF next_char = "*" /\ inside THEN LexTok(Operator("Multiply"), l)
    ELSE IF next_char = "/" /\ inside THEN LexTok(Operator("Divide"), l)
    ELSE IF next_char = "+" /\ inside THEN LexTok(Operator("Add"), l)
    ELSE IF next_char = "-" /\ inside THEN LexTok(Operator("Subtract"), l)
    ELSE IF next_char = "," /\ inside THEN LexTok(Comma, l)
    ELSE IF next_char = "=" /\ inside THEN expect_char(l, "=", Operator("IsEqualTo"))
    ELSE IF next_char = "!" /\ inside THEN
        Let(get_next_char(l), LAMBDA h :
            IF h.c = <<>> THEN LexErr([e |-> "UnexpectedEOF"], h.lx)
            ELSE IF h.c[1] = "=" THEN LexTok(Operator("IsNotEqualTo"), h.lx)
            ELSE LexTok(Exclamation, backup(h.lx)))
    ELSE IF next_char = "&" /\ inside THEN expect_char(l, "&", Operator("And"))
    ELSE IF next_char = "|" /\ inside THEN expect_char(l, "|", Operator("Or"))
    ELSE IF inside /\ is_whitespace(next_char) THEN
        yield_token_match(consume_whitespace(l))
    ELSE IF inside THEN LexErr([e |-> "UnexpectedCharacter", c |-> next_char], l)
    ELSE Let(advance_while(l, "text"), LAMBDA l1 :
            IF ~SliceOk(l1.token_start_byte, l1.cursor)
            THEN [r |-> "panic", lx |-> [l1 EXCEPT !.panicked = TRUE]]
            ELSE LexTok(Text(get_slice(l1)), l1))

\* Lexer::yield_token with is_inside_template never cleared.
yield_token_flag_kept(lx) ==
    Let(yield_token_match(lx), LAMBDA y :
        IF y.lx.panicked THEN [r |-> "panic", lx |-> y.lx]
        ELSE IF y.r = "tok"
        THEN [y EXCEPT !.lx = end_token(
                [y.lx EXCEPT !.is_inside_template = @ \/ lx.is_inside_template])]
        ELSE y)

\* Lexer::yield_token with the cursor put back where the call began when the
\* call fails.
yield_token_rewound(lx) ==
    Let(yield_token_match(lx), LAMBDA y :
        IF y.lx.panicked THEN [r |-> "panic", lx |-> y.lx]
        ELSE IF y.r = "tok" THEN [y EXCEPT !.lx = end_token(y.lx)]
        ELSE IF y.r = "err" THEN [y EXCEPT !.lx.cursor = lx.cursor]
        ELSE y)

\* Lexer::yield_token
yield_token(lx) ==
    Let(yield_token_match(lx), LAMBDA y :
        IF y.lx.panicked THEN [r |-> "panic", lx |-> y.lx]
        ELSE IF y.r = "tok" THEN [y EXCEPT !.lx = end_token(y.lx)]
        ELSE y)

-----------------------------------------------------------------------------
(* AST: src/src/node.rs, enum Node.  parser.rs calls the Body variant Root. *)

Body(nodes)                == [n |-> "Body", nodes |-> nodes]
ValueNode(v)               == [n |-> "Value", v |-> v]
Variable(id)               == [n |-> "Variable", id |-> id]
FunctionCall(id, args)     == [n |-> "FunctionCall", id |-> id, args |-> args]
ArrayNode(nodes)           == [n |-> "Array", nodes |-> nodes]
Operation(lhs, op, rhs)    == [n |-> "Operation", lhs |-> lhs, op |-> op, rhs |-> rhs]
Not(node)                  == [n |-> "Not", node |-> node]
Negate(node)               == [n |-> "Negate", node |-> node]
IfThenElse(c, t, e)        == [n |-> "IfThenElse", cond |-> c, then |-> t, else |-> e]
ForIn(id, array, body, sep) ==
    [n |-> "ForIn", id |-> id, array |-> array, body |-> body, sep |-> sep]

-----------------------------------------------------------------------------
(* Parser helpers: src/src/parser_helpers.rs *)

Ok(v, p) == [r |-> "ok", v |-> v, p |-> p]
\* An error leaves the parser (a &mut self) as it was when the error arose.
Err(e, p) == [r |-> "err", e |-> e, p |-> p]
Panic    == [r |-> "panic"]

UnexpectedEOF             == [e |-> "UnexpectedEOF"]
\* ParseError::UnexpectedToken(tok, ctx).  The field signal is not part of the
\* Rust value: it records that the error is the block-terminator signal raised
\* by the early returns of parse_template (Signal), and no code reads it.
UnexpectedToken(tok, ctx) ==
    [e |-> "UnexpectedToken", tok |-> tok, ctx |-> ctx, signal |-> FALSE]
Signal(tok) ==
    [e |-> "UnexpectedToken", tok |-> tok, ctx |-> "template", signal |-> TRUE]
LexerError(inner)         == [e |-> "LexerError", inner |-> inner]

\* Parser::new.  The fields handed and high are not fields of the struct:
\* handed is the tokens next_token has handed out and restore has not taken
\* back, high the most tokens the buffer has held.
ParserNew == [lx |-> LexerNew, buffer |-> <<>>, handed |-> <<>>, high |-> 0]

\* `let x = result?; k(x)`: a result that is not Ok is returned as it is.
Try(result, k(_)) == IF result.r # "ok" THEN result ELSE k(result)

\* Parser::next_token leaving the token it returns in the buffer.
next_token_kept(p) ==
    IF p.buffer = <<>> THEN
        Let(yield_token(p.lx), LAMBDA y :
            CASE y.r = "tok"   -> Ok(<<y.tok>>, [p EXCEPT !.lx = y.lx,
                                                          !.handed = Append(@, y.tok)])
              [] y.r = "none"  -> Ok(<<>>, [p EXCEPT !.lx = y.lx])
              [] y.r = "err"   -> Err(LexerError(y.e), [p EXCEPT !.lx = y.lx])
              [] y.r = "panic" -> Panic)
    ELSE Ok(<<p.buffer[Len(p.buffer)]>>,
            [p EXCEPT !.handed = Append(@, p.buffer[Len(p.buffer)])])

\* Parser::next_token
next_token(p) ==
    IF p.buffer = <<>> THEN
        Let(yield_token(p.lx), LAMBDA y :
            CASE y.r = "tok"   -> Ok(<<y.tok>>, [p EXCEPT !.lx = y.lx,
                                                          !.handed = Append(@, y.tok)])
              [] y.r = "none"  -> Ok(<<>>, [p EXCEPT !.lx = y.lx])
              [] y.r = "err"   -> Err(LexerError(y.e), [p EXCEPT !.lx = y.lx])
              [] y.r = "panic" -> Panic)
    ELSE Ok(<<p.buffer[Len(p.buffer)]>>,
            [p EXCEPT !.buffer = SubSeq(@, 1, Len(@) - 1),
                      !.handed = Append(@, p.buffer[Len(p.buffer)])])

\* Parser::expect_next_token
expect_next_token(p) ==
    Try(next_token(p), LAMBDA t :
        IF t.v = <<>> THEN Err(UnexpectedEOF, t.p) ELSE Ok(t.v[1], t.p))

\* Parser::expect
expect(p, expected_token, parsing) ==
    Try(expect_next_token(p), LAMBDA t :
        IF expected_token = t.v THEN Ok(<<>>, t.p)
        ELSE Err(UnexpectedToken(t.v, parsing), t.p))

\* Parser::restore.  The token leaves handed when it is the one handed out
\* last.
restore(p, token) ==
    [p EXCEPT !.buffer = Append(@, token),
              !.high   = Max(@, Len(p.buffer) + 1),
              !.handed = IF @ # <<>> /\ @[Len(@)] = token
                         THEN SubSeq(@, 1, Len(@) - 1) ELSE @]

-----------------------------------------------------------------------------
(* Expressions: src/src/math.rs *)

RECURSIVE parse_or_operand(_, _), parse_or_loop(_, _),
          parse_and_operand(_, _), parse_and_loop(_, _),
          parse_comparisons_operand(_, _), parse_comparisons_loop(_, _),
          parse_polynomial_operand(_, _), parse_polynomial_loop(_, _),
          parse_term_operand(_, _), parse_term_loop(_, _), parse_factor(_),
          parse_function_call_loop(_, _), parse_array_loop(_, _)

\* The expression an operand makes: itself when it is the first, else the
\* Node::Operation of the expression so far, the operator read and the operand.
\* pending is <<>> or <<expression, operator>>.
Combine(pending, operand) ==
    IF pending = <<>> THEN operand
    ELSE Operation(pending[1], pending[2], operand)

\* Parser::parse_or: an operand (self.parse_and()?), the first or the one
\* after `||`, then the loop on the next token.
parse_or_operand(p, pending) ==
    Try(parse_and_operand(p, <<>>), LAMBDA operand :
        parse_or_loop(operand.p, Combine(pending, operand.v)))

parse_or_loop(p, expression) ==
    Try(next_token(p), LAMBDA t :
        IF t.v = <<>> THEN Ok(expression, t.p)
        ELSE IF t.v[1] = Operator("Or")
             THEN parse_or_operand(t.p, <<expression, "Or">>)
        ELSE Ok(expression, restore(t.p, t.v[1])))

parse_or(p) == parse_or_operand(p, <<>>)

\* Parser::parse_expr
parse_expr(p) == parse_or(p)

\* Parser::parse_and
parse_and_operand(p, pending) ==
    Try(parse_comparisons_operand(p, <<>>), LAMBDA operand :
        parse_and_loop(operand.p, Combine(pending, operand.v)))

parse_and_loop(p, expression) ==
    Try(next_token(p), LAMBDA t :
        IF t.v = <<>> THEN Ok(expression, t.p)
        ELSE IF t.v[1] = Operator("And")
             THEN parse_and_operand(t.p, <<expression, "And">>)
        ELSE Ok(expression, restore(t.p, t.v[1])))

parse_and(p) == parse_and_operand(p, <<>>)

\* Parser::parse_comparisons
parse_comparisons_operand(p, pending) ==
    Try(parse_polynomial_operand(p, <<>>), LAMBDA operand :
        parse_comparisons_loop(operand.p, Combine(pending, operand.v)))

parse_comparisons_loop(p, expression) ==
    Try(next_token(p), LAMBDA t :
        IF t.v = <<>> THEN Ok(expression, t.p)
        ELSE IF t.v[1].t = "Operator" /\ t.v[1].o \in {"IsEqualTo", "IsNotEqualTo"}
             THEN parse_comparisons_operand(t.p, <<expression, t.v[1].o>>)
        ELSE Ok(expression, restore(t.p, t.v[1])))

parse_comparisons(p) == parse_comparisons_operand(p, <<>>)

\* Parser::parse_polynomial
parse_polynomial_operand(p, pending) ==
    Try(parse_term_operand(p, <<>>), LAMBDA term :
        parse_polynomial_loop(term.p, Combine(pending, term.v)))

parse_polynomial_loop(p, expression) ==
    Try(next_token(p), LAMBDA t :
        IF t.v = <<>> THEN Ok(expression, t.p)
        ELSE IF t.v[1].t = "Operator" /\ t.v[1].o \in {"Add", "Subtract"}
             THEN parse_polynomial_operand(t.p, <<expression, t.v[1].o>>)
        ELSE Ok(expression, restore(t.p, t.v[1])))

parse_polynomial(p) == parse_polynomial_operand(p, <<>>)

\* Parser::parse_term, with the operand after `*` or `/` parsed as a whole
\* term, so that the operators group to the right.
parse_term_operand_right(p, pending) ==
    IF pending = <<>> THEN
        Try(parse_factor(p), LAMBDA factor : parse_term_loop(factor.p, factor.v))
    ELSE Try(parse_term_operand(p, <<>>), LAMBDA rest :
            Ok(Operation(pending[1], pending[2], rest.v), rest.p))

\* Parser::parse_term
parse_term_operand(p, pending) ==
    Try(parse_factor(p), LAMBDA factor :
        parse_term_loop(factor.p, Combine(pending, factor.v)))

parse_term_loop(p, term) ==
    Try(next_token(p), LAMBDA t :
        IF t.v = <<>> THEN Ok(term, t.p)
        ELSE IF t.v[1].t = "Operator" /\ t.v[1].o \in {"Multiply", "Divide"}
             THEN parse_term_operand(t.p, <<term, t.v[1].o>>)
        ELSE Ok(term, restore(t.p, t.v[1])))

parse_term(p) == parse_term_operand(p, <<>>)

\* Parser::parse_function_call
parse_function_call(p, identifier) == parse_function_call_loop(p, <<>>)

parse_function_call_loop(p, args) ==
    Try(expect_next_token(p), LAMBDA t :
        IF t.v = ClosingParen THEN Ok(args, t.p)
        ELSE Try(parse_expr(restore(t.p, t.v)), LAMBDA a :
             Try(expect_next_token(a.p), LAMBDA u :
                 IF u.v = ClosingParen THEN Ok(Append(args, a.v), u.p)
                 ELSE IF u.v = Comma
                      THEN parse_function_call_loop(u.p, Append(args, a.v))
                 ELSE Err(UnexpectedToken(u.v, "function call"), u.p))))

\* Parser::parse_array
parse_array(p) ==
    Try(parse_array_loop(p, <<>>), LAMBDA a : Ok(ArrayNode(a.v), a.p))

\* The loop of Parser::parse_array with `]` accepted only where no element
\* has been read yet or right after an element.
parse_array_loop_no_trailing(p, array) ==
    Try(expect_next_token(p), LAMBDA t :
        IF t.v = ClosingSqBracket /\ array = <<>> THEN Ok(array, t.p)
        ELSE Try(parse_expr(restore(t.p, t.v)), LAMBDA a :
             Try(expect_next_token(a.p), LAMBDA u :
                 IF u.v = ClosingSqBracket THEN Ok(Append(array, a.v), u.p)
                 ELSE IF u.v = Comma THEN parse_array_loop(u.p, Append(array, a.v))
                 ELSE Err(UnexpectedToken(u.v, "array"), u.p))))

parse_array_loop(p, array) ==
    Try(expect_next_token(p), LAMBDA t :
        IF t.v = ClosingSqBracket THEN Ok(array, t.p)
        ELSE Try(parse_expr(restore(t.p, t.v)), LAMBDA a :
             Try(expect_next_token(a.p), LAMBDA u :
                 IF u.v = ClosingSqBracket THEN Ok(Append(array, a.v), u.p)
                 ELSE IF u.v = Comma THEN parse_array_loop(u.p, Append(array, a.v))
                 ELSE Err(UnexpectedToken(u.v, "array"), u.p))))

\* Parser::parse_factor
parse_factor(p) ==
    Try(expect_next_token(p), LAMBDA t :
        CASE t.v.t = "Literal" -> Ok(ValueNode(t.v.v), t.p)
          [] t.v.t = "OpeningSqBracket" -> parse_array(t.p)
          [] t.v.t = "OpeningParen" ->
                Try(parse_expr(t.p), LAMBDA expr :
                    Try(expect(expr.p, ClosingParen, "parentheses"), LAMBDA c :
                        Ok(expr.v, c.p)))
          [] t.v.t = "Identifier" ->
                Try(expect_next_token(t.p), LAMBDA u :
                    IF u.v = OpeningParen THEN
                        Try(parse_function_call(u.p, t.v.s), LAMBDA f :
                            Ok(FunctionCall(t.v.s, f.v), f.p))
                    ELSE Ok(Variable(t.v.s), restore(u.p, u.v)))
          [] t.v.t = "Exclamation" ->
                Try(parse_factor(t.p), LAMBDA f : Ok(Not(f.v), f.p))
          [] OTHER -> Err(UnexpectedToken(t.v, "factor"), t.p))

-----------------------------------------------------------------------------
(* Parser: src/src/parser.rs *)

RECURSIVE next_node(_), parse_template(_), parse_if(_), parse_if_loop(_, _),
          parse_else(_), parse_else_loop(_, _), parse_all_loop(_, _)

\* Parser::next_node
next_node(p) ==
    Try(next_token(p), LAMBDA t :
        IF t.v = <<>> THEN Ok(<<>>, t.p)
        ELSE CASE t.v[1].t = "Text" ->
                    Ok(<<ValueNode(StringValue(t.v[1].s))>>, t.p)
               [] t.v[1].t = "TemplateOpen" ->
                    Try(parse_template(t.p), LAMBDA n : Ok(<<n.v>>, n.p))
               [] OTHER -> Panic)

\* Parser::parse_template
parse_template(p) ==
    Try(expect_next_token(p), LAMBDA t :
        Try(CASE t.v = Keyword("If") -> parse_if(t.p)
              [] t.v.t = "Keyword" /\ t.v # Keyword("If") ->
                    Err(Signal(t.v), t.p)
              [] t.v = Operator("Divide") ->
                    Err(Signal(Operator("Divide")), t.p)
              [] OTHER -> parse_expr(restore(t.p, t.v)),
            LAMBDA node :
                Try(expect(node.p, TemplateClose, "template"), LAMBDA c :
                    Ok(node.v, c.p))))

\* Parser::parse_if
parse_if(p) ==
    Try(parse_expr(p), LAMBDA condition :
        Try(expect(condition.p, TemplateClose, "template if"), LAMBDA c :
            Try(parse_if_loop(c.p, <<>>), LAMBDA l :
                Ok(IfThenElse(condition.v, Body(l.v.then_nodes), l.v.else_node),
                   l.p))))

\* The loop of Parser::parse_if: its value is then_nodes and else_node.
parse_if_loop(p, then_nodes) ==
    Let(next_node(p), LAMBDA n :
        CASE n.r = "ok" ->
                IF n.v = <<>> THEN Err(UnexpectedEOF, n.p)
                ELSE parse_if_loop(n.p, Append(then_nodes, n.v[1]))
          [] n.r = "panic" -> n
          [] n.r = "err" /\ n.e.e = "UnexpectedToken" /\ n.e.tok = Keyword("Elif") ->
                Try(parse_if(n.p), LAMBDA e :
                    Ok([then_nodes |-> then_nodes, else_node |-> <<e.v>>], e.p))
          [] n.r = "err" /\ n.e.e = "UnexpectedToken" /\ n.e.tok = Keyword("Else") ->
                Try(parse_else(n.p), LAMBDA e :
                    Ok([then_nodes |-> then_nodes, else_node |-> <<e.v>>], e.p))
          [] n.r = "err" /\ n.e.e = "UnexpectedToken" /\ n.e.tok = Operator("Divide") ->
                Try(expect(n.p, Keyword("If"), "end if"), LAMBDA e :
                    Ok([then_nodes |-> then_nodes, else_node |-> <<>>], e.p))
          [] OTHER -> n)

\* Parser::parse_else
parse_else(p) ==
    Try(expect(p, TemplateClose, "template else"), LAMBDA c :
        Try(parse_else_loop(c.p, <<>>), LAMBDA l : Ok(Body(l.v), l.p)))

parse_else_loop(p, nodes) ==
    Let(next_node(p), LAMBDA n :
        CASE n.r = "ok" ->
                IF n.v = <<>> THEN Err(UnexpectedEOF, n.p)
                ELSE parse_else_loop(n.p, Append(nodes, n.v[1]))
          [] n.r = "panic" -> n
          [] n.r = "err" /\ n.e.e = "UnexpectedToken" /\ n.e.tok = Operator("Divide") ->
                Try(expect(n.p, Keyword("If"), "else end if"), LAMBDA e :
                    Ok(nodes, e.p))
          [] OTHER -> n)

\* Parser::parse_all
parse_all(p) ==
    Try(parse_all_loop(p, <<>>), LAMBDA l : Ok(Body(l.v), l.p))

parse_all_loop(p, nodes) ==
    Try(next_node(p), LAMBDA n :
        IF n.v = <<>> THEN Ok(nodes, n.p)
        ELSE parse_all_loop(n.p, Append(nodes, n.v[1])))

\* Parser::parse_input
parse_input == parse_all(ParserNew)

-----------------------------------------------------------------------------
(* Evaluator: src/src/node.rs *)

\* A Value<'a> is an OwnedValue v and whether it is Value::Owned or
\* Value::Borrowed.  Every result carries the trace of the evaluation: the
\* identifiers of the Variable nodes evaluated so far, in order.
EOk(v, owned, trace) == [r |-> "ok", v |-> v, owned |-> owned, trace |-> trace]
EErr(e, trace)       == [r |-> "err", e |-> e, trace |-> trace]
EPanic(trace)        == [r |-> "panic", trace |-> trace]

UndefinedVariable(id) == [e |-> "UndefinedVariable", id |-> id]
IterateError(v)       == [e |-> "IterateError", v |-> v]

\* Prepends the trace of what was evaluated before x.
After(trace, x) == [x EXCEPT !.trace = trace \o @]

\* HashMap::insert
Insert(map, key, value) ==
    [x \in DOMAIN map \cup {key} |-> IF x = key THEN value ELSE map[x]]

\* The caller's functions: each maps its arguments to an OwnedValue.
CallFunction(callable, args) ==
    CASE callable = "comma" -> StringValue(<<",">>)
      [] callable = "count" -> Num(Len(args))
      [] callable = "list"  -> ArrayValue(args)

RECURSIVE _evaluate(_, _), EvalBody(_, _, _, _), EvalAll(_, _, _, _),
          EvalForInLoop(_, _, _, _, _, _, _), EvalOperation(_, _),
          EvalFunctionCall(_, _),
          EvalIfThenElse(_, _), EvalForIn(_, _), EvalSeparator(_, _)

\* Node::Body: buffer is the string so far, i the next child.
EvalBody(nodes, i, local_vars, buffer) ==
    IF i > Len(nodes) THEN EOk(StringValue(buffer), TRUE, <<>>)
    ELSE LET eval_value == _evaluate(nodes[i], local_vars) IN
         IF eval_value.r # "ok" THEN eval_value
         ELSE After(eval_value.trace,
                    EvalBody(nodes, i + 1, local_vars,
                             buffer \o to_string(eval_value.v)))

\* iter().map(|node| node._evaluate(..)).collect::<Result<Vec<_>, _>>(): the
\* values of the nodes left to right, up to the first error.
EvalAll(nodes, i, local_vars, values) ==
    IF i > Len(nodes) THEN EOk(values, TRUE, <<>>)
    ELSE LET value == _evaluate(nodes[i], local_vars) IN
         IF value.r # "ok" THEN value
         ELSE After(value.trace,
                    EvalAll(nodes, i + 1, local_vars, Append(values, value.v)))

\* Node::Variable with the caller's variables consulted before local_vars.
EvalVariable_globals_first(node, local_vars) ==
    IF node.id \in DOMAIN variables
    THEN EOk(variables[node.id], FALSE, <<node.id>>)
    ELSE IF node.id \notin DOMAIN local_vars
         THEN EErr(UndefinedVariable(node.id), <<node.id>>)
    ELSE IF ~local_vars[node.id].owned
         THEN EOk(local_vars[node.id].v, FALSE, <<node.id>>)
         ELSE EPanic(<<node.id>>)

\* Node::Variable
EvalVariable(node, local_vars) ==
    IF node.id \notin DOMAIN local_vars THEN
        IF node.id \in DOMAIN variables
        THEN EOk(variables[node.id], FALSE, <<node.id>>)
        ELSE EErr(UndefinedVariable(node.id), <<node.id>>)
    ELSE IF ~local_vars[node.id].owned
         THEN EOk(local_vars[node.id].v, FALSE, <<node.id>>)
         ELSE EPanic(<<node.id>>)

\* Node::FunctionCall with the arguments evaluated before the function is
\* looked up.
EvalFunctionCall_args_first(node, local_vars) ==
    LET args == EvalAll(node.args, 1, local_vars, <<>>) IN
    IF args.r # "ok" THEN args
    ELSE IF node.id \notin DOMAIN functions
         THEN EErr(UndefinedVariable(node.id), args.trace)
    ELSE EOk(CallFunction(functions[node.id], args.v), TRUE, args.trace)

\* Node::FunctionCall
EvalFunctionCall(node, local_vars) ==
    IF node.id \notin DOMAIN functions
    THEN EErr(UndefinedVariable(node.id), <<>>)
    ELSE LET args == EvalAll(node.args, 1, local_vars, <<>>) IN
         IF args.r # "ok" THEN args
         ELSE EOk(CallFunction(functions[node.id], args.v), TRUE, args.trace)

\* Node::Operation with `&&` and `||` deciding on the left operand alone when
\* they can.
EvalOperation_short_circuit(node, local_vars) ==
    LET lhs == _evaluate(node.lhs, local_vars) IN
    IF lhs.r # "ok" THEN lhs
    ELSE IF node.op = "And" /\ ~is_truthy(lhs.v)
         THEN EOk(BooleanValue(FALSE), TRUE, lhs.trace)
    ELSE IF node.op = "Or" /\ is_truthy(lhs.v)
         THEN EOk(BooleanValue(TRUE), TRUE, lhs.trace)
    ELSE LET rhs == _evaluate(node.rhs, local_vars) IN
    IF rhs.r # "ok" THEN After(lhs.trace, rhs)
    ELSE LET trace == lhs.trace \o rhs.trace
             result ==
                CASE node.op = "Multiply" -> MulValues(lhs.v, rhs.v)
                  [] node.op = "Divide"   -> DivValues(lhs.v, rhs.v)
                  [] node.op = "Add"      -> AddValues(lhs.v, rhs.v)
                  [] node.op = "Subtract" -> SubValues(lhs.v, rhs.v)
                  [] node.op = "IsEqualTo" ->
                        VOk(BooleanValue(ValueEq(lhs.v, rhs.v)))
                  [] node.op = "IsNotEqualTo" ->
                        VOk(BooleanValue(~ValueEq(lhs.v, rhs.v)))
                  [] node.op = "And" ->
                        VOk(BooleanValue(is_truthy(lhs.v) /\ is_truthy(rhs.v)))
                  [] node.op = "Or" ->
                        VOk(BooleanValue(is_truthy(lhs.v) \/ is_truthy(rhs.v)))
         IN CASE result.r = "ok"  -> EOk(result.v, TRUE, trace)
              [] result.r = "err" -> EErr(result.e, trace)
              [] OTHER            -> EPanic(trace)

\* Node::Operation
EvalOperation(node, local_vars) ==
    LET lhs == _evaluate(node.lhs, local_vars) IN
    IF lhs.r # "ok" THEN lhs
    ELSE LET rhs == _evaluate(node.rhs, local_vars) IN
    IF rhs.r # "ok" THEN After(lhs.trace, rhs)
    ELSE LET trace == lhs.trace \o rhs.trace
             result ==
                CASE node.op = "Multiply" -> MulValues(lhs.v, rhs.v)
                  [] node.op = "Divide"   -> DivValues(lhs.v, rhs.v)
                  [] node.op = "Add"      -> AddValues(lhs.v, rhs.v)
                  [] node.op = "Subtract" -> SubValues(lhs.v, rhs.v)
                  [] node.op = "IsEqualTo" ->
                        VOk(BooleanValue(ValueEq(lhs.v, rhs.v)))
                  [] node.op = "IsNotEqualTo" ->
                        VOk(BooleanValue(~ValueEq(lhs.v, rhs.v)))
                  [] node.op = "And" ->
                        VOk(BooleanValue(is_truthy(lhs.v) /\ is_truthy(rhs.v)))
                  [] node.op = "Or" ->
                        VOk(BooleanValue(is_truthy(lhs.v) \/ is_truthy(rhs.v)))
         IN CASE result.r = "ok"  -> EOk(result.v, TRUE, trace)
              [] result.r = "err" -> EErr(result.e, trace)
              [] OTHER            -> EPanic(trace)

\* Node::IfThenElse without its else arm: a falsy condition gives "".
EvalIfThenElse_no_else(node, local_vars) ==
    LET evaluation == _evaluate(node.cond, local_vars) IN
    IF evaluation.r # "ok" THEN evaluation
    ELSE IF is_truthy(evaluation.v)
         THEN After(evaluation.trace, _evaluate(node.then, local_vars))
    ELSE EOk(StringValue(<<>>), TRUE, evaluation.trace)

\* Node::IfThenElse
EvalIfThenElse(node, local_vars) ==
    LET evaluation == _evaluate(node.cond, local_vars) IN
    IF evaluation.r # "ok" THEN evaluation
    ELSE IF is_truthy(evaluation.v)
         THEN After(evaluation.trace, _evaluate(node.then, local_vars))
    ELSE IF node.else # <<>>
         THEN After(evaluation.trace, _evaluate(node.else[1], local_vars))
    ELSE EOk(StringValue(<<>>), TRUE, evaluation.trace)

\* Node::ForIn, the separator: "" when there is none, the string of a
\* borrowed String, an error for another borrowed value, and panic!() for an
\* owned value.
EvalSeparator(separator, local_vars) ==
    IF separator = <<>> THEN EOk(StringValue(<<>>), FALSE, <<>>)
    ELSE LET sep == _evaluate(separator[1], local_vars) IN
         IF sep.r # "ok" THEN sep
         ELSE IF sep.owned THEN EPanic(sep.trace)
         ELSE IF sep.v.k = "String" THEN sep
         ELSE EErr(OperationError, sep.trace)

\* The loop of Node::ForIn with the separator after every item, the last
\* included.
EvalForInLoop_trailing(identifier, array, body, separator, i, locals, buffer) ==
    IF i > Len(array) THEN EOk(StringValue(buffer), TRUE, <<>>)
    ELSE LET inserted == Insert(locals, identifier,
                                [v |-> array[i], owned |-> FALSE])
             evaluation == _evaluate(body, inserted)
         IN IF evaluation.r # "ok" THEN evaluation
            ELSE After(evaluation.trace,
                       EvalForInLoop(identifier, array, body, separator, i + 1,
                                     inserted,
                                     buffer \o to_string(evaluation.v)
                                            \o separator))

\* Node::ForIn, the loop over array from its item i (counted from 1); locals
\* is the clone of the caller's local_vars.
EvalForInLoop(identifier, array, body, separator, i, locals, buffer) ==
    IF i > Len(array) THEN EOk(StringValue(buffer), TRUE, <<>>)
    ELSE LET inserted == Insert(locals, identifier,
                                [v |-> array[i], owned |-> FALSE])
             evaluation == _evaluate(body, inserted)
         IN IF evaluation.r # "ok" THEN evaluation
            ELSE After(evaluation.trace,
                       EvalForInLoop(identifier, array, body, separator, i + 1,
                                     inserted,
                                     buffer \o to_string(evaluation.v)
                                            \o (IF i - 1 # Len(array) - 1
                                                THEN separator ELSE <<>>)))

\* Node::ForIn returning "" for an empty array before it evaluates the
\* separator.
EvalForIn_empty_first(node, local_vars) ==
    LET evaluation == _evaluate(node.array, local_vars) IN
    IF evaluation.r # "ok" THEN evaluation
    ELSE IF evaluation.v.k # "Array"
         THEN EErr(IterateError(evaluation.v), evaluation.trace)
    ELSE IF evaluation.v.vec = <<>>
         THEN EOk(StringValue(<<>>), TRUE, evaluation.trace)
    ELSE LET separator == EvalSeparator(node.sep, local_vars) IN
         IF separator.r # "ok" THEN After(evaluation.trace, separator)
         ELSE After(evaluation.trace \o separator.trace,
                    EvalForInLoop(node.id, evaluation.v.vec, node.body,
                                  separator.v.s, 1, local_vars, <<>>))

\* Node::ForIn
EvalForIn(node, local_vars) ==
    LET evaluation == _evaluate(node.array, local_vars) IN
    IF evaluation.r # "ok" THEN evaluation
    ELSE IF evaluation.v.k # "Array"
         THEN EErr(IterateError(evaluation.v), evaluation.trace)
    ELSE LET separator == EvalSeparator(node.sep, local_vars) IN
         IF separator.r # "ok" THEN After(evaluation.trace, separator)
         ELSE After(evaluation.trace \o separator.trace,
                    EvalForInLoop(node.id, evaluation.v.vec, node.body,
                                  separator.v.s, 1, local_vars, <<>>))

\* Node::_evaluate
_evaluate(node, local_vars) ==
    CASE node.n = "Body"         -> EvalBody(node.nodes, 1, local_vars, <<>>)
      [] node.n = "Value"        -> EOk(node.v, FALSE, <<>>)
      [] node.n = "Variable"     -> EvalVariable(node, local_vars)
      [] node.n = "FunctionCall" -> EvalFunctionCall(node, local_vars)
      [] node.n = "Array" ->
            LET array == EvalAll(node.nodes, 1, local_vars, <<>>) IN
            IF array.r # "ok" THEN array
            ELSE EOk(ArrayValue(array.v), TRUE, array.trace)
      [] node.n = "Operation"    -> EvalOperation(node, local_vars)
      [] node.n = "Not" ->
            LET x == _evaluate(node.node, local_vars) IN
            IF x.r # "ok" THEN x
            ELSE EOk(BooleanValue(~is_truthy(x.v)), TRUE, x.trace)
      [] node.n = "Negate" ->
            LET x == _evaluate(node.node, local_vars) IN
            IF x.r # "ok" THEN x
            ELSE IF x.v.k = "Number" THEN EOk(NegF64(x.v), TRUE, x.trace)
            ELSE EErr(OperationError, x.trace)
      [] node.n = "IfThenElse"   -> EvalIfThenElse(node, local_vars)
      [] node.n = "ForIn"        -> EvalForIn(node, local_vars)

RECURSIVE referenced_vars(_)
\* Node::referenced_vars
referenced_vars(node) ==
    CASE node.n = "Body" ->
            UNION {referenced_vars(node.nodes[i]) : i \in 1..Len(node.nodes)}
      [] node.n = "FunctionCall" ->
            UNION {referenced_vars(node.args[i]) : i \in 1..Len(node.args)}
      [] node.n = "Array" ->
            UNION {referenced_vars(node.nodes[i]) : i \in 1..Len(node.nodes)}
      [] node.n = "Operation" ->
            referenced_vars(node.lhs) \cup referenced_vars(node.rhs)
      [] node.n = "IfThenElse" ->
            referenced_vars(node.cond) \cup referenced_vars(node.then)
            \cup (IF node.else # <<>> THEN referenced_vars(node.else[1]) ELSE {})
      [] node.n = "ForIn" ->
            ((referenced_vars(node.body)
              \cup (IF node.sep # <<>> THEN referenced_vars(node.sep[1]) ELSE {}))
             \ {node.id})
            \cup referenced_vars(node.array)
      [] node.n = "Variable" -> {node.id}
      [] node.n = "Not"      -> referenced_vars(node.node)
      [] node.n = "Negate"   -> referenced_vars(node.node)
      [] node.n = "Value"    -> {}

\* Value::unwrap_string
unwrap_string(x) ==
    IF x.owned /\ x.v.k = "String"
    THEN [r |-> "ok", s |-> x.v.s, trace |-> x.trace]
    ELSE EPanic(x.trace)

\* Node::evaluate
evaluate(node) ==
    LET body == _evaluate(node, <<>>) IN
    IF body.r # "ok" THEN body ELSE unwrap_string(body)

-----------------------------------------------------------------------------
(* The pipeline: parse the source, then render the tree. *)

NoResult == [r |-> "none"]

\* Parser::parse_input(src)
ParseInput ==
    /\ phase = "input"
    /\ parsed' = parse_input
    /\ phase' = "parsed"
    /\ UNCHANGED <<src, variables, functions, rendered, lexer, yielded,
                   references, input>>

\* Node::evaluate(&variables, &functions) on the parsed tree
Evaluate ==
    /\ phase = "parsed"
    /\ parsed.r = "ok"
    /\ rendered' = evaluate(parsed.v)
    /\ phase' = "rendered"
    /\ UNCHANGED <<src, variables, functions, parsed, lexer, yielded,
                   references, input>>

Next == ParseInput \/ Evaluate

-----------------------------------------------------------------------------
(* Inputs of the pipeline: the sources handed to Parser::parse_input. *)

\* The names the inputs use.
LoopVar      == <<"x">>
InnerVar     == <<"y">>
ArrVar       == <<"a", "r", "r">>
SepVar       == <<"s">>
UndefinedVar == <<"u">>
UndefinedSep == <<"w">>
NoFunction    == <<"n", "o", "f", "n">>
CountFunction == <<"c", "o", "u", "n", "t">>

RECURSIVE Concat(_)
Concat(seqs) == IF seqs = <<>> THEN <<>> ELSE Head(seqs) \o Concat(Tail(seqs))

SeqsUpTo(S, n) == UNION {[1..k -> S] : k \in 0..n}

OPEN  == <<"{", "{">>
CLOSE == <<"}", "}">>
Tag(body) == OPEN \o body \o CLOSE

\* The longest source of fragments, in fragments.
MaxFrags == 3

\* Whole templates, text and the characters that switch the lexer's mode.
Frags ==
    << Tag(<<"i", "f", " ", "a">>), Tag(<<"e", "l", "i", "f", " ", "b">>),
       Tag(<<"e", "l", "s", "e">>), Tag(<<"/", "i", "f">>), Tag(<<"a">>),
       <<"x">>, <<"{">>, <<"'">>, OPEN, CLOSE >>

FragInputs ==
    {[kind |-> "frags", ix |-> ix] : ix \in SeqsUpTo(1..Len(Frags), MaxFrags)}

\* The longest source of single characters, in characters.
MaxText == 4

TextChars == {"a", "{", "}", "'", "\""}

TextInputs == {[kind |-> "text", s |-> s] : s \in SeqsUpTo(TextChars, MaxText)}

\* The most branches (if and elif) of an if chain.
MaxBranches == 3

IfInputs ==
    {[kind |-> "if", n |-> n, else |-> e] : n \in 1..MaxBranches, e \in BOOLEAN}

\* Branch i of a chain tests the variable c<i>; its body is the text B<i>
\* followed by {{b<i>}}.  The else body is the text E followed by {{e}}.
CondVar(i)  == <<"c", DigitChar(i)>>
BodyVar(i)  == <<"b", DigitChar(i)>>
ElseVar     == <<"e">>
BranchBody(i) == <<"B", DigitChar(i)>> \o Tag(BodyVar(i))
ElseBody      == <<"E">> \o Tag(ElseVar)

RECURSIVE ElifSource(_, _)
ElifSource(i, n) ==
    IF i > n THEN <<>>
    ELSE Tag(<<"e", "l", "i", "f", " ">> \o CondVar(i)) \o BranchBody(i)
         \o ElifSource(i + 1, n)

IfSource(in) ==
    Tag(<<"i", "f", " ">> \o CondVar(1)) \o BranchBody(1) \o ElifSource(2, in.n)
    \o (IF in.else THEN Tag(<<"e", "l", "s", "e">>) \o ElseBody ELSE <<>>)
    \o Tag(<<"/", "i", "f">>)

\* The values a condition variable takes: a falsy and a truthy one of each kind.
CondValues ==
    {Num(0), Num(2), StringValue(<<>>), StringValue(<<"s">>),
     BooleanValue(FALSE), BooleanValue(TRUE), ArrayValue(<<>>), ArrayValue(<<Num(0)>>)}

IfVars(in) ==
    LET fixed == {BodyVar(i) : i \in 1..in.n} \cup {ElseVar} IN
    {[id \in {CondVar(i) : i \in 1..in.n} \cup fixed |->
        IF id \in fixed THEN StringValue(<<"=">> \o id) ELSE c[id]] :
     c \in [{CondVar(i) : i \in 1..in.n} -> CondValues]}

\* The most binary operators of an expression.
MaxOps == 3

BinaryOps ==
    {"Multiply", "Divide", "Add", "Subtract", "IsEqualTo", "IsNotEqualTo", "And", "Or"}

OpSource(op) ==
    CASE op = "Multiply" -> <<"*">>      [] op = "Divide" -> <<"/">>
      [] op = "Add" -> <<"+">>           [] op = "Subtract" -> <<"-">>
      [] op = "IsEqualTo" -> <<"=", "=">> [] op = "IsNotEqualTo" -> <<"!", "=">>
      [] op = "And" -> <<"&", "&">>      [] op = "Or" -> <<"|", "|">>

\* The most binary operators of an expression with a `!` or parentheses.
MaxMarkedOps == 2

\* An expression v1 op1 v2 ... over the variables v1, v2, ...; mark "not" puts
\* `!` before operand at, mark "paren" puts operands at and at+1 in parentheses.
ExprInputs ==
    {[kind |-> "expr", ops |-> ops, mark |-> "plain", at |-> 0] :
        ops \in SeqsUpTo(BinaryOps, MaxOps) \ {<<>>}}
    \cup UNION {{[kind |-> "expr", ops |-> ops, mark |-> "not", at |-> at] :
                    at \in 1..(Len(ops) + 1)} :
                ops \in SeqsUpTo(BinaryOps, MaxMarkedOps) \ {<<>>}}
    \cup UNION {{[kind |-> "expr", ops |-> ops, mark |-> "paren", at |-> at] :
                    at \in 1..Len(ops)} :
                ops \in SeqsUpTo(BinaryOps, MaxMarkedOps) \ {<<>>}}

Operand(i) == <<"v", DigitChar(i)>>

RECURSIVE ExprSourceFrom(_, _)
ExprSourceFrom(in, i) ==
    LET operand ==
            (IF in.mark = "not" /\ in.at = i THEN <<"!">> ELSE <<>>)
            \o (IF in.mark = "paren" /\ in.at = i THEN <<"(">> ELSE <<>>)
            \o Operand(i)
            \o (IF in.mark = "paren" /\ in.at + 1 = i THEN <<")">> ELSE <<>>)
    IN IF i > Len(in.ops) THEN operand
       ELSE operand \o OpSource(in.ops[i]) \o ExprSourceFrom(in, i + 1)

ExprSource(in) == Tag(ExprSourceFrom(in, 1))

ExprVars == [id \in {Operand(i) : i \in 1..9} |-> Num(DigitOf(id[2]))]

\* The most `-` signs before a literal.
MaxMinus == 2

NegLiterals == {<<"0">>, <<"2">>, <<"4", "2", ".", "4", "2">>}

\* {{ -...-lit }}, and {{ lhs--lit }} when lhs is not empty.
NegInputs ==
    {[kind |-> "neg", k |-> k, lit |-> l, lhs |-> lhs] :
        k \in 1..MaxMinus, l \in NegLiterals, lhs \in {<<>>, <<"2">>}}

NegSource(in) ==
    Tag(<<" ">> \o in.lhs \o (IF in.lhs = <<>> THEN <<>> ELSE <<"-">>)
        \o [i \in 1..in.k |-> "-"] \o in.lit \o <<" ">>)

\* Values with the text the spec's rendering rules give them.
Rendered(v, text) == [v |-> v, text |-> text]

ScalarCases ==
    {Rendered(StringValue(<<>>), <<>>),
     Rendered(StringValue(<<"a", "b">>), <<"a", "b">>),
     Rendered(StringValue(<<",", " ">>), <<",", " ">>),
     Rendered(BooleanValue(TRUE), <<"t", "r", "u", "e">>),
     Rendered(BooleanValue(FALSE), <<"f", "a", "l", "s", "e">>),
     Rendered(NumberValue(FALSE, 4, 0), <<"4">>),
     Rendered(NumberValue(FALSE, 0, 0), <<"0">>),
     Rendered(NumberValue(TRUE, 3, 0), <<"-", "3">>),
     Rendered(NumberValue(FALSE, 120, 0), <<"1", "2", "0">>),
     Rendered(NumberValue(FALSE, 25, 1), <<"2", ".", "5">>),
     Rendered(NumberValue(FALSE, 5, 2), <<"0", ".", "0", "5">>)}

\* The elements of the arrays: scalars and arrays of scalars.
ElementCases ==
    {Rendered(StringValue(<<"a", "b">>), <<"a", "b">>),
     Rendered(BooleanValue(TRUE), <<"t", "r", "u", "e">>),
     Rendered(NumberValue(FALSE, 4, 0), <<"4">>),
     Rendered(NumberValue(FALSE, 25, 1), <<"2", ".", "5">>),
     Rendered(ArrayValue(<<>>), <<>>),
     Rendered(ArrayValue(<<NumberValue(FALSE, 4, 0)>>), <<"4">>),
     Rendered(ArrayValue(<<StringValue(<<"a", "b">>), BooleanValue(TRUE)>>),
              <<"a", "b", ",", " ", "t", "r", "u", "e">>)}

\* The most elements of a rendered array.
MaxElems == 3

\* `, ` after every text but the last.
CommaSpaced(texts) ==
    Concat([i \in 1..Len(texts) |->
                IF i < Len(texts) THEN texts[i] \o <<",", " ">> ELSE texts[i]])

ArrayCases ==
    {Rendered(ArrayValue([i \in 1..Len(es) |-> es[i].v]),
              CommaSpaced([i \in 1..Len(es) |-> es[i].text])) :
        es \in SeqsUpTo(ElementCases, MaxElems)}

\* {{x}} with x bound to a value.
VarInputs == {[kind |-> "var", case |-> c] : c \in ScalarCases \cup ArrayCases}

\* The most parts, expressions and commas, between the brackets of a list.
MaxParts == 5

\* The parts of a list: the expressions `1` and `a+1`, and the comma.
Parts == {"one", "sum", "comma"}

\* An array literal `[ ... ]` or the argument list of `count( ... )`.
ListInputs ==
    {[kind |-> "list", bracket |-> b, parts |-> ps] :
        b \in {"array", "call"}, ps \in SeqsUpTo(Parts, MaxParts)}

PartSource(part) ==
    CASE part = "one"   -> <<"1">>
      [] part = "sum"   -> <<"a", "+", "1">>
      [] part = "comma" -> <<",">>

ListSource(in) ==
    Tag((IF in.bracket = "array" THEN <<"[">> ELSE CountFunction \o <<"(">>)
        \o Concat([i \in 1..Len(in.parts) |-> PartSource(in.parts[i]) \o <<" ">>])
        \o (IF in.bracket = "array" THEN <<"]">> ELSE <<")">>))

\* What stands in a body template before a stray `/if`, `elif b` or `else`:
\* nothing (the token is then the first of its template), an operand, an
\* operand and an operator, or an opening `(`, `!`, `[` or `count(`.
StrayPrefixes ==
    { <<>>, <<"1", " ">>, <<"a", " ">>, <<"1", " ", "+", " ">>,
      <<"a", " ", "=", "=", " ">>, <<"(">>, <<"!">>, <<"[">>,
      <<"[", "1", ",">>, CountFunction \o <<"(">> }

StrayTokens ==
    { <<"/", "i", "f">>, <<"e", "l", "i", "f", " ", "b">>, <<"e", "l", "s", "e">> }

\* What follows the body template: nothing, or text and `{{/if}}`.
StrayRests == { <<>>, <<"X">> \o Tag(<<"/", "i", "f">>) }

\* `{{if a}}`, or `{{if a}}{{else}}` when in_else, then the text T and a
\* body template made of a prefix and a stray token, then the rest.
StrayInputs ==
    {[kind |-> "stray", in_else |-> e, prefix |-> pre, token |-> t, rest |-> r] :
        e \in BOOLEAN, pre \in StrayPrefixes, t \in StrayTokens, r \in StrayRests}

StraySource(in) ==
    Tag(<<"i", "f", " ", "a">>)
    \o (IF in.in_else THEN Tag(<<"e", "l", "s", "e">>) ELSE <<>>)
    \o <<"T">> \o Tag(in.prefix \o in.token) \o in.rest

Inputs ==
    FragInputs \cup TextInputs \cup IfInputs \cup ExprInputs \cup NegInputs
    \cup VarInputs \cup ListInputs \cup StrayInputs

SourceOf(in) ==
    CASE in.kind = "frags" -> Concat([i \in 1..Len(in.ix) |-> Frags[in.ix[i]]])
      [] in.kind = "text"  -> in.s
      [] in.kind = "if"    -> IfSource(in)
      [] in.kind = "expr"  -> ExprSource(in)
      [] in.kind = "neg"   -> NegSource(in)
      [] in.kind = "var"   -> Tag(LoopVar)
      [] in.kind = "list"  -> ListSource(in)
      [] in.kind = "stray" -> StraySource(in)

FragVars == (<<"a">> :> Num(0)) @@ (<<"b">> :> Num(1))

VarsOf(in) ==
    CASE in.kind = "if"   -> IfVars(in)
      [] in.kind = "expr" -> {ExprVars}
      [] in.kind = "var"  -> {LoopVar :> in.case.v}
      [] OTHER            -> {FragVars}

\* The caller's functions map.
Functions ==
    (<<"c", "o", "m", "m", "a">> :> "comma") @@ (<<"c", "o", "u", "n", "t">> :> "count")
    @@ (<<"l", "i", "s", "t">> :> "list")

Init ==
    /\ input \in Inputs
    /\ src = SourceOf(input)
    /\ variables \in VarsOf(input)
    /\ functions = Functions
    /\ phase = "input"
    /\ parsed = NoResult
    /\ rendered = NoResult
    /\ lexer = LexerNew
    /\ yielded = <<>>
    /\ references = <<>>

Spec == Init /\ [][Next]_vars

-----------------------------------------------------------------------------
(* Claims about the pipeline, checked under Spec. *)

\* C1: for every source string, Parser::parse_input returns Ok or Err and
\* never reaches a process-terminating fault; next_node never receives a token
\* other than Text or TemplateOpen (it panics on any other token).
C1_NoFault == phase # "input" => parsed.r \in {"ok", "err"}

NoAdjacentBraces(s) == \A i \in 1..(Len(s) - 1) : ~(s[i] = "{" /\ s[i + 1] = "{")

\* C2: a source with no two adjacent `{` parses, and renders as itself.
C2_TextVerbatim ==
    NoAdjacentBraces(src) =>
        /\ phase = "parsed" => parsed.r = "ok"
        /\ phase = "rendered" => rendered.r = "ok" /\ rendered.s = src

\* The branch an if chain selects: the first whose condition variable is
\* truthy, 0 when there is none.
RECURSIVE FirstTruthy(_, _)
FirstTruthy(i, n) ==
    IF i > n THEN 0
    ELSE IF is_truthy(variables[CondVar(i)]) THEN i
    ELSE FirstTruthy(i + 1, n)

Selected == FirstTruthy(1, input.n)

ExpectedIfOutput ==
    IF Selected > 0 THEN <<"B", DigitChar(Selected)>> \o variables[BodyVar(Selected)].s
    ELSE IF input.else THEN <<"E">> \o variables[ElseVar].s
    ELSE <<>>

\* The variables an if chain is expected to look up, in order: the conditions
\* up to the selected branch, then the variable of the one body evaluated.
ExpectedIfTrace ==
    IF Selected > 0
    THEN [i \in 1..Selected |-> CondVar(i)] \o <<BodyVar(Selected)>>
    ELSE [i \in 1..input.n |-> CondVar(i)]
         \o (IF input.else THEN <<ElseVar>> ELSE <<>>)

\* C3: an if / elif* / else? / /if chain renders the body of the first branch
\* whose condition is truthy, else the else body, else the empty string; only
\* the conditions up to that branch and the one selected body are evaluated.
C3_FirstTruthyBranch ==
    (input.kind = "if" /\ phase # "input") =>
        /\ parsed.r = "ok"
        /\ phase = "rendered" =>
            /\ rendered.r = "ok"
            /\ rendered.s = ExpectedIfOutput
            /\ rendered.trace = ExpectedIfTrace

\* A chain of three branches and an else whose second branch is selected.
C3_Witness ==
    /\ input.kind = "if" /\ input.n = 3 /\ input.else
    /\ phase = "rendered"
    /\ Selected = 2
    /\ rendered.r = "ok"
    /\ rendered.s = <<"B", "2", "=", "b", "2">>
    /\ rendered.trace = <<CondVar(1), CondVar(2), BodyVar(2)>>

RECURSIVE NegateTimes(_, _), NegF64Times(_, _)
NegateTimes(k, node) == IF k = 0 THEN node ELSE Negate(NegateTimes(k - 1, node))
NegF64Times(k, x) == IF k = 0 THEN x ELSE NegF64(NegF64Times(k - 1, x))

ExpectedNegTree ==
    LET operand == NegateTimes(input.k, ValueNode(ParseF64(input.lit)[1])) IN
    IF input.lhs = <<>> THEN operand
    ELSE Operation(ValueNode(ParseF64(input.lhs)[1]), "Subtract", operand)

ExpectedNegValue ==
    LET operand == NegF64Times(input.k, ParseF64(input.lit)[1]) IN
    IF input.lhs = <<>> THEN operand
    ELSE AddF64(ParseF64(input.lhs)[1], NegF64(operand))

\* C5: a `-` in factor position parses as Negate of the following factor:
\* {{-n}} renders as Number(-n), --x is Negate(Negate(x)), {{ 2--2 }} is a
\* subtraction of a negated literal and renders 4.
C5_UnaryMinus ==
    (input.kind = "neg" /\ phase # "input") =>
        /\ parsed.r = "ok"
        /\ parsed.v = Body(<<ExpectedNegTree>>)
        /\ phase = "rendered" =>
            rendered.r = "ok" /\ rendered.s = F64ToString(ExpectedNegValue)

\* The precedence levels of the binary operators, tightest first.
Prec(op) ==
    CASE op \in {"Multiply", "Divide"}        -> 5
      [] op \in {"Add", "Subtract"}           -> 4
      [] op \in {"IsEqualTo", "IsNotEqualTo"} -> 3
      [] op = "And"                           -> 2
      [] op = "Or"                            -> 1

\* Operand i of an expression input as the tree it must become.
AtomAt(in, i) ==
    IF in.mark = "not" /\ in.at = i THEN Not(Variable(Operand(i)))
    ELSE IF in.mark = "paren" /\ in.at = i
    THEN Operation(Variable(Operand(i)), in.ops[i], Variable(Operand(i + 1)))
    ELSE Variable(Operand(i))

\* The operands and operators of an expression input left to right, a
\* parenthesised pair counting as one operand.
RECURSIVE ExpectedInOrderFrom(_, _)
ExpectedInOrderFrom(in, i) ==
    LET skip == in.mark = "paren" /\ in.at = i
        next == IF skip THEN i + 1 ELSE i
    IN IF next > Len(in.ops) THEN <<AtomAt(in, i)>>
       ELSE <<AtomAt(in, i), [op |-> in.ops[next]]>> \o ExpectedInOrderFrom(in, next + 1)

Atoms(in) == {AtomAt(in, i) : i \in 1..(Len(in.ops) + 1)}

RECURSIVE InOrder(_, _), WellGrouped(_, _)
InOrder(node, atoms) ==
    IF node \in atoms \/ node.n # "Operation" THEN <<node>>
    ELSE InOrder(node.lhs, atoms) \o <<[op |-> node.op]>> \o InOrder(node.rhs, atoms)

\* Under every operator the left operand binds at least as tightly (equal
\* precedence groups to the left) and the right operand strictly tighter.
WellGrouped(node, atoms) ==
    \/ node \in atoms
    \/ /\ node.n = "Operation"
       /\ WellGrouped(node.lhs, atoms)
       /\ WellGrouped(node.rhs, atoms)
       /\ node.lhs \notin atoms => Prec(node.lhs.op) >= Prec(node.op)
       /\ node.rhs \notin atoms => Prec(node.rhs.op) > Prec(node.op)

\* C6: the tree of an expression keeps the operands in source order and
\* groups them by precedence * / > + - > == != > && > ||, operators of equal
\* precedence to the left; a parenthesised sub-expression and a `!` operand
\* are single operands.
C6_PrecedenceAndAssociativity ==
    (input.kind = "expr" /\ phase # "input") =>
        /\ parsed.r = "ok"
        /\ Len(parsed.v.nodes) = 1
        /\ InOrder(parsed.v.nodes[1], Atoms(input)) = ExpectedInOrderFrom(input, 1)
        /\ WellGrouped(parsed.v.nodes[1], Atoms(input))

\* v1-v2*v3-v4 parsed as (v1-(v2*v3))-v4.
C6_Witness ==
    /\ input = [kind |-> "expr", ops |-> <<"Subtract", "Multiply", "Subtract">>,
                mark |-> "plain", at |-> 0]
    /\ phase = "parsed"
    /\ parsed.r = "ok"
    /\ parsed.v.nodes =
        <<Operation(
            Operation(Variable(Operand(1)), "Subtract",
                      Operation(Variable(Operand(2)), "Multiply", Variable(Operand(3)))),
            "Subtract", Variable(Operand(4)))>>

\* C9: the block-terminator signal parse_template raises for a template that
\* starts with elif, else, in or `/` never is the error parse_input returns.
C9_SignalNeverReturned ==
    (phase # "input" /\ parsed.r = "err") =>
        ~(/\ parsed.e.e = "UnexpectedToken"
          /\ parsed.e.signal
          /\ parsed.e.tok \in {Keyword("Elif"), Keyword("Else"), Keyword("In"),
                               Operator("Divide")})

\* C13: {{x}} renders a String as itself, a Boolean as true or false, a
\* Number in the default rendering in which an integer-valued number has no
\* decimal point, and an Array as the renderings of its elements joined by
\* `, `, nested arrays included, the empty array as the empty string.
C13_RenderingOfValues ==
    (input.kind = "var" /\ phase = "rendered") =>
        rendered.r = "ok" /\ rendered.s = input.case.text

\* x = [[4], "ab", 2.5] renders `4, ab, 2.5`.
C13_Witness ==
    /\ input.kind = "var" /\ phase = "rendered"
    /\ input.case.v = ArrayValue(<<ArrayValue(<<NumberValue(FALSE, 4, 0)>>),
                                   StringValue(<<"a", "b">>),
                                   NumberValue(FALSE, 25, 1)>>)
    /\ rendered.r = "ok"
    /\ rendered.s = <<"4", ",", " ", "a", "b", ",", " ", "2", ".", "5">>

\* A list is well formed: its parts are expressions at the odd places and
\* commas at the even ones, so that the last part may be a comma.
WellFormed(parts) ==
    \A i \in 1..Len(parts) : (parts[i] = "comma") <=> (i % 2 = 0)

PartNode(part) ==
    IF part = "one" THEN ValueNode(NumberValue(FALSE, 1, 0))
    ELSE Operation(Variable(<<"a">>), "Add", ValueNode(NumberValue(FALSE, 1, 0)))

RECURSIVE Children(_)
\* The nodes of the expressions of a well-formed list, in source order.
Children(parts) ==
    IF parts = <<>> THEN <<>>
    ELSE IF Head(parts) = "comma" THEN Children(Tail(parts))
    ELSE <<PartNode(Head(parts))>> \o Children(Tail(parts))

\* C16: an array literal and an argument list take zero or more expressions
\* separated by commas, with one optional trailing comma: e1,...,en and
\* e1,...,en, parse to the same node of exactly n children in source order,
\* the empty list to a node of no child, and a list with a comma that no
\* expression precedes, or with two expressions that no comma separates, is a
\* parse error.
C16_CommaSeparatedLists ==
    (input.kind = "list" /\ phase # "input") =>
        IF WellFormed(input.parts) THEN
            /\ parsed.r = "ok"
            /\ parsed.v =
                Body(<<IF input.bracket = "array"
                       THEN ArrayNode(Children(input.parts))
                       ELSE FunctionCall(CountFunction, Children(input.parts))>>)
        ELSE parsed.r = "err"

\* `{{[1 ,a+1 , ]}}`: two children, the trailing comma accepted.
C16_Witness ==
    /\ input = [kind |-> "list", bracket |-> "array",
                parts |-> <<"one", "comma", "sum", "comma">>]
    /\ phase = "rendered"
    /\ parsed.r = "ok"
    /\ Len(parsed.v.nodes[1].nodes) = 2
    /\ rendered.s = <<"1", ",", " ", "1">>

RECURSIVE BranchesAreBodies(_)
\* Every IfThenElse of the tree has a Body as its then field and, when it has
\* an else field, a Body as its else field.
BranchesAreBodies(node) ==
    CASE node.n = "Body" ->
            \A i \in 1..Len(node.nodes) : BranchesAreBodies(node.nodes[i])
      [] node.n = "IfThenElse" ->
            /\ node.then.n = "Body"
            /\ BranchesAreBodies(node.then)
            /\ node.else # <<>> =>
                node.else[1].n = "Body" /\ BranchesAreBodies(node.else[1])
      [] OTHER -> TRUE

\* C18: in every tree a successful parse returns, the then field of each
\* IfThenElse is a Body and its else field, when present, is a Body, chains
\* with elif included.
C18_BranchesAreBodies ==
    (phase # "input" /\ parsed.r = "ok") => BranchesAreBodies(parsed.v)

RECURSIVE TokensFrom(_)
\* The tokens that yield_token returns from lexer lx on, up to the first call
\* that returns no token.
TokensFrom(lx) ==
    Let(yield_token(lx), LAMBDA y :
        IF y.r = "tok" THEN <<y.tok>> \o TokensFrom(y.lx) ELSE <<>>)

\* C21: the buffer of the parser never holds more than one token (restore is
\* only called on an empty buffer), and the tokens next_token has handed out,
\* less the one restored, followed by the one in the buffer are the lexer's
\* tokens in source order, each once: all of them when the parse succeeds, a
\* prefix of them when it fails.
C21_OneSlotPushback ==
    (phase # "input" /\ parsed.r \in {"ok", "err"}) =>
        LET p      == parsed.p
            tokens == TokensFrom(LexerNew)
            held   == p.handed \o p.buffer
        IN /\ p.high <= 1
           /\ Len(p.buffer) <= 1
           /\ Len(held) <= Len(tokens)
           /\ held = SubSeq(tokens, 1, Len(held))
           /\ parsed.r = "ok" => p.buffer = <<>> /\ p.handed = tokens

\* `{{if c1}}B1{{b1}}{{/if}}` parsed: c1 and b1 were each followed by a
\* restored `}}`, and all twelve tokens were handed out.
C21_Witness ==
    /\ input = [kind |-> "if", n |-> 1, else |-> FALSE]
    /\ phase = "parsed"
    /\ parsed.r = "ok"
    /\ parsed.p.high = 1
    /\ Len(parsed.p.handed) = 12
    /\ parsed.p.handed[10] = Operator("Divide")

\* C23: a `/`, `elif` or `else` token that is not the first token of its
\* body template never ends or switches the block: the parse fails.
C23_TerminatorOnlyFirst ==
    (input.kind = "stray" /\ input.prefix # <<>> /\ phase # "input") =>
        parsed.r = "err"

-----------------------------------------------------------------------------
(* Rendering of for loops: the trees handed to Node::evaluate. *)

\* The most items of an iterated array.
MaxItems == 3

Items ==
    {Num(1), StringValue(<<"a">>), ArrayValue(<<Num(1), Num(2)>>),
     ArrayValue(<<Num(3), Num(4)>>)}

Arrays == SeqsUpTo(Items, MaxItems)

\* The separator expressions: none, a literal, the variable s, the
\* concatenation ','+' ', a call of comma() or count(), an undefined variable.
Separators ==
    {[form |-> "none"], [form |-> "concat"], [form |-> "undefined"]}
    \cup {[form |-> "literal", v |-> v] :
            v \in {StringValue(<<>>), StringValue(<<",">>), StringValue(<<" ">>),
                   Num(1), ArrayValue(<<>>)}}
    \cup {[form |-> "variable", v |-> v] : v \in {StringValue(<<",">>), Num(1)}}
    \cup {[form |-> "call", f |-> f] : f \in {"comma", "count"}}

\* The loop bodies: {{x}}, an inner loop over x joined by ',', and {{u}} with
\* u undefined.
ForBodies == {"item", "inner", "undefined"}

ForInputs ==
    {[kind |-> "for", array |-> a, iter |-> it, sep |-> sp, body |-> b] :
        a \in Arrays, it \in {"literal", "variable"}, sp \in Separators,
        b \in ForBodies}

SepNode(sp) ==
    CASE sp.form = "none"      -> <<>>
      [] sp.form = "literal"   -> <<ValueNode(sp.v)>>
      [] sp.form = "variable"  -> <<Variable(SepVar)>>
      [] sp.form = "concat"    ->
            <<Operation(ValueNode(StringValue(<<",">>)), "Add",
                        ValueNode(StringValue(<<" ">>)))>>
      [] sp.form = "call"      ->
            <<FunctionCall(IF sp.f = "comma" THEN <<"c", "o", "m", "m", "a">>
                           ELSE <<"c", "o", "u", "n", "t">>, <<>>)>>
      [] sp.form = "undefined" -> <<Variable(UndefinedSep)>>

BodyNode(b) ==
    CASE b = "item"      -> Body(<<Variable(LoopVar)>>)
      [] b = "inner"     ->
            Body(<<ForIn(InnerVar, Variable(LoopVar), Body(<<Variable(InnerVar)>>),
                         <<ValueNode(StringValue(<<",">>))>>)>>)
      [] b = "undefined" -> Body(<<Variable(UndefinedVar)>>)

ForTree(in) ==
    Body(<<ForIn(LoopVar,
                 IF in.iter = "literal" THEN ValueNode(ArrayValue(in.array))
                 ELSE Variable(ArrVar),
                 BodyNode(in.body), SepNode(in.sep))>>)

ForVars(in) ==
    LET ids == (IF in.iter = "variable" THEN {ArrVar} ELSE {})
               \cup (IF in.sep.form = "variable" THEN {SepVar} ELSE {})
    IN [id \in ids |-> IF id = ArrVar THEN ArrayValue(in.array) ELSE in.sep.v]

\* Trees in which the loop variable x also names a global: a loop and then
\* {{x}} ("after"), a loop over the global x ("iter"), a loop separated by the
\* global x ("sep"), and a loop over x inside a loop binding x, followed by
\* {{x}} inside the outer body ("nested").
ScopeInputs ==
    {[kind |-> "scope", shape |-> "after", array |-> a, global |-> g] :
        a \in Arrays, g \in {<<>>, <<StringValue(<<"g">>)>>, <<Num(9)>>}}
    \cup {[kind |-> "scope", shape |-> "iter", array |-> a, global |-> <<ArrayValue(a)>>] :
            a \in Arrays}
    \cup {[kind |-> "scope", shape |-> "iter", array |-> <<>>, global |-> <<>>]}
    \cup {[kind |-> "scope", shape |-> "sep", array |-> a, global |-> g] :
            a \in Arrays, g \in {<<>>, <<StringValue(<<";">>)>>}}
    \cup {[kind |-> "scope", shape |-> "nested", array |-> a, global |-> g] :
            a \in Arrays, g \in {<<>>, <<StringValue(<<"g">>)>>}}

ScopeTree(in) ==
    CASE in.shape = "after" ->
            Body(<<ForIn(LoopVar, ValueNode(ArrayValue(in.array)),
                         Body(<<Variable(LoopVar)>>), <<>>),
                   Variable(LoopVar)>>)
      [] in.shape = "iter" ->
            Body(<<ForIn(LoopVar, Variable(LoopVar),
                         Body(<<Variable(LoopVar)>>), <<>>)>>)
      [] in.shape = "sep" ->
            Body(<<ForIn(LoopVar, ValueNode(ArrayValue(in.array)),
                         Body(<<Variable(LoopVar)>>), <<Variable(LoopVar)>>)>>)
      [] in.shape = "nested" ->
            Body(<<ForIn(LoopVar, ValueNode(ArrayValue(in.array)),
                         Body(<<ForIn(LoopVar, Variable(LoopVar),
                                      Body(<<Variable(LoopVar)>>), <<>>),
                                Variable(LoopVar)>>),
                         <<>>)>>)

ScopeVars(in) ==
    [id \in (IF in.global = <<>> THEN {} ELSE {LoopVar}) |-> in.global[1]]

\* Lookups of a name.  form "variable": {{x}}, inside a loop binding x to the
\* item local[1] when local is not empty, with the global x = global[1] when
\* global is not empty.  form "call": a call of fn, a function of the
\* caller's map ("count") or not ("nofn", and "x", which names a variable),
\* with no argument, the argument x or the undefined argument u.  The text p
\* comes before either.
LookupInputs ==
    {[kind |-> "lookup", form |-> "variable", local |-> l, global |-> g] :
        l \in {<<>>, <<StringValue(<<"l">>)>>, <<Num(1)>>},
        g \in {<<>>, <<StringValue(<<"g">>)>>, <<Num(2)>>}}
    \cup {[kind |-> "lookup", form |-> "call", fn |-> f, args |-> a, global |-> g] :
            f \in {CountFunction, NoFunction, LoopVar},
            a \in {"none", "defined", "undefined"},
            g \in {<<>>, <<StringValue(<<"g">>)>>}}

LookupArgs(in) ==
    CASE in.args = "none"      -> <<>>
      [] in.args = "defined"   -> <<Variable(LoopVar)>>
      [] in.args = "undefined" -> <<Variable(UndefinedVar)>>

LookupTree(in) ==
    Body(<<ValueNode(StringValue(<<"p">>)),
           IF in.form = "call" THEN FunctionCall(in.fn, LookupArgs(in))
           ELSE IF in.local = <<>> THEN Variable(LoopVar)
           ELSE ForIn(LoopVar, ValueNode(ArrayValue(in.local)),
                      Body(<<Variable(LoopVar)>>), <<>>)>>)

LeftVar  == <<"l">>
RightVar == <<"r">>

\* The operand values: of every kind, truthy and falsy.
OpValues ==
    {StringValue(<<"a">>), StringValue(<<>>), Num(2), Num(0),
     BooleanValue(TRUE), BooleanValue(FALSE),
     ArrayValue(<<Num(1), Num(2)>>), ArrayValue(<<Num(3), Num(4)>>), ArrayValue(<<>>)}

\* An operand is a variable bound to a value, an undefined variable, or the
\* quotient 1/0.
Operands ==
    {[form |-> "value", v |-> v] : v \in OpValues}
    \cup {[form |-> "undefined"], [form |-> "quotient"]}

\* l op r for every operator and pair of operands.
OpInputs ==
    {[kind |-> "op", op |-> op, lhs |-> l, rhs |-> r] :
        op \in BinaryOps, l \in Operands, r \in Operands}

OperandNode(o, id) ==
    IF o.form = "quotient"
    THEN Operation(ValueNode(Num(1)), "Divide", ValueNode(Num(0)))
    ELSE Variable(id)

OpTree(in) ==
    Body(<<Operation(OperandNode(in.lhs, LeftVar), in.op,
                     OperandNode(in.rhs, RightVar))>>)

OpVars(in) ==
    LET ids == (IF in.lhs.form = "value" THEN {LeftVar} ELSE {})
               \cup (IF in.rhs.form = "value" THEN {RightVar} ELSE {})
    IN [id \in ids |-> IF id = LeftVar THEN in.lhs.v ELSE in.rhs.v]

EvalInputs == ForInputs \cup ScopeInputs \cup LookupInputs \cup OpInputs

TreeOf(in) ==
    CASE in.kind = "for"    -> ForTree(in)
      [] in.kind = "scope"  -> ScopeTree(in)
      [] in.kind = "lookup" -> LookupTree(in)
      [] in.kind = "op"     -> OpTree(in)

EvalVarsOf(in) ==
    CASE in.kind = "for" -> ForVars(in)
      [] in.kind = "op"  -> OpVars(in)
      [] OTHER           -> ScopeVars(in)

InitEval ==
    /\ input \in EvalInputs
    /\ src = <<>>
    /\ variables = EvalVarsOf(input)
    /\ functions = Functions
    /\ phase = "parsed"
    /\ parsed = Ok(TreeOf(input), ParserNew)
    /\ rendered = NoResult
    /\ lexer = LexerNew
    /\ yielded = <<>>
    /\ references = <<>>

\* tree.referenced_vars(), called once on the tree, before it is rendered.
ReferencedVars ==
    /\ phase = "parsed"
    /\ parsed.r = "ok"
    /\ references = <<>>
    /\ references' = <<referenced_vars(parsed.v)>>
    /\ UNCHANGED <<src, variables, functions, phase, parsed, rendered, lexer,
                   yielded, input>>

NextEval == Evaluate \/ ReferencedVars

SpecEval == InitEval /\ [][NextEval]_vars

-----------------------------------------------------------------------------
(* Claims about for loops, checked under SpecEval. *)

\* strings joined by s: s after every string but the last.
Joined(strings, s) ==
    Concat([i \in 1..Len(strings) |->
                IF i < Len(strings) THEN strings[i] \o s ELSE strings[i]])

Strings(vec) == [i \in 1..Len(vec) |-> to_string(vec[i])]

\* The separator is absent, or a literal or variable whose value is a String.
PlainSeparator(sp) ==
    \/ sp.form = "none"
    \/ sp.form \in {"literal", "variable"} /\ sp.v.k = "String"

SepString(sp) == IF sp.form = "none" THEN <<>> ELSE sp.v.s

\* What one item renders as under a body.
ItemRendering(b, item) ==
    IF b = "item" THEN to_string(item) ELSE Joined(Strings(item.vec), <<",">>)

Renderable(b, array) ==
    \/ b = "item"
    \/ b = "inner" /\ \A i \in 1..Len(array) : array[i].k = "Array"

SepValue(sp) ==
    CASE sp.form \in {"literal", "variable"} -> sp.v
      [] sp.form = "concat" -> StringValue(<<",", " ">>)
      [] sp.form = "call"   ->
            IF sp.f = "comma" THEN StringValue(<<",">>) ELSE Num(0)

Count(seq, x) == Cardinality({i \in 1..Len(seq) : seq[i] = x})

\* C7: a separator expression is evaluated once, after the iterable; a String
\* value is used as the separator whatever expression produced it, another
\* value gives OperationError, and no separator causes a fault.
C7_SeparatorStringOrError ==
    (/\ input.kind = "for" /\ phase = "rendered"
     /\ input.sep.form \notin {"none", "undefined"}) =>
        /\ rendered.r \in {"ok", "err"}
        /\ SepValue(input.sep).k # "String" =>
            rendered.r = "err" /\ rendered.e = OperationError
        /\ (SepValue(input.sep).k = "String" /\ input.body = "item") =>
            /\ rendered.r = "ok"
            /\ rendered.s = Joined(Strings(input.array), SepValue(input.sep).s)
        /\ input.sep.form = "variable" =>
            /\ Count(rendered.trace, SepVar) = 1
            /\ input.iter = "variable" =>
                rendered.trace[1] = ArrVar /\ rendered.trace[2] = SepVar

\* C8 as stated: a loop over the empty array renders the empty string
\* whatever its body and its separator.
C8_EmptyWhateverSeparator ==
    (input.kind = "for" /\ phase = "rendered" /\ input.array = <<>>) =>
        rendered.r = "ok" /\ rendered.s = <<>>

\* C8: a loop over the empty array never evaluates its body and renders the
\* empty string when the separator is absent or a String literal or variable;
\* the separator is evaluated all the same: one that fails returns its error,
\* one whose value is not a String returns OperationError.
C8_EmptyLoopSkipsBody ==
    (input.kind = "for" /\ phase = "rendered" /\ input.array = <<>>) =>
        /\ Count(rendered.trace, UndefinedVar) = 0
        /\ Count(rendered.trace, LoopVar) = 0
        /\ rendered.r = "ok" => rendered.s = <<>>
        /\ PlainSeparator(input.sep) => rendered.r = "ok"
        /\ (input.sep.form \in {"literal", "variable"} /\ input.sep.v.k # "String") =>
            rendered.r = "err" /\ rendered.e = OperationError
        /\ input.sep.form = "undefined" =>
            rendered.r = "err" /\ rendered.e = UndefinedVariable(UndefinedSep)

\* The empty array, a body that would fail and the separator ',': "".
C8_Witness ==
    /\ input.kind = "for" /\ phase = "rendered"
    /\ input.array = <<>>
    /\ input.body = "undefined"
    /\ input.sep = [form |-> "literal", v |-> StringValue(<<",">>)]
    /\ rendered.r = "ok"
    /\ rendered.s = <<>>

\* What a tree of ScopeInputs renders as when x is bound only inside the body
\* of its loop.
ExpectedScope(in) ==
    LET undefined == [r |-> "err", e |-> UndefinedVariable(LoopVar)]
        ok(s)     == [r |-> "ok", s |-> s]
        items     == Strings(in.array)
        strangers == {i \in 1..Len(in.array) : in.array[i].k # "Array"}
    IN CASE in.shape = "after" ->
                IF in.global = <<>> THEN undefined
                ELSE ok(Concat(items) \o to_string(in.global[1]))
         [] in.shape = "iter" ->
                IF in.global = <<>> THEN undefined ELSE ok(Concat(items))
         [] in.shape = "sep" ->
                IF in.global = <<>> THEN undefined
                ELSE ok(Joined(items, in.global[1].s))
         [] in.shape = "nested" ->
                IF strangers # {}
                THEN [r |-> "err",
                      e |-> IterateError(
                                in.array[CHOOSE i \in strangers :
                                            \A j \in strangers : i <= j])]
                ELSE ok(Concat([i \in 1..Len(in.array) |->
                                   Concat(Strings(in.array[i].vec)) \o items[i]]))

\* C10: the binding of a loop variable is visible only in the body of its
\* loop: there it shadows a global or an enclosing loop variable of the same
\* name, the iterable and the separator are evaluated without it, and after
\* the loop the name is the outer binding or global again, or undefined.
C10_LoopVariableScope ==
    (input.kind = "scope" /\ phase = "rendered") =>
        LET expected == ExpectedScope(input) IN
        /\ rendered.r = expected.r
        /\ expected.r = "ok" => rendered.s = expected.s
        /\ expected.r = "err" => rendered.e = expected.e

\* x is the global "g": the loop over [1, "a"] renders its items and the
\* {{x}} after it renders g.
C10_Witness ==
    /\ input = [kind |-> "scope", shape |-> "after",
                array |-> <<Num(1), StringValue(<<"a">>)>>,
                global |-> <<StringValue(<<"g">>)>>]
    /\ phase = "rendered"
    /\ rendered.r = "ok"
    /\ rendered.s = <<"1", "a", "g">>
    /\ rendered.trace = <<LoopVar, LoopVar, LoopVar>>

-----------------------------------------------------------------------------
(* Claims about the evaluation of names and operators, checked under SpecEval. *)

\* What a lookup renders as when locals come before globals, a name in
\* neither is UndefinedVariable(name), and a call of a function that is not in
\* the functions map is UndefinedVariable(function) before any argument is
\* looked at.
ExpectedLookup(in) ==
    LET undefined(id) == [r |-> "err", e |-> UndefinedVariable(id)]
        ok(s)         == [r |-> "ok", s |-> <<"p">> \o s]
    IN IF in.form = "variable" THEN
            IF in.local # <<>> THEN ok(to_string(in.local[1]))
            ELSE IF in.global # <<>> THEN ok(to_string(in.global[1]))
            ELSE undefined(LoopVar)
       ELSE IF in.fn # CountFunction THEN undefined(in.fn)
       ELSE IF in.args = "undefined" THEN undefined(UndefinedVar)
       ELSE IF in.args = "defined" /\ in.global = <<>> THEN undefined(LoopVar)
       ELSE ok(IF in.args = "none" THEN <<"0">> ELSE <<"1">>)

\* C11: a Variable is the loop-local binding when there is one, else the
\* caller's variable; a name in neither, and a call of a function absent from
\* the functions map, return Err(UndefinedVariable(name)): no fault, and no
\* output string.
C11_UndefinedIsError ==
    (input.kind = "lookup" /\ phase = "rendered") =>
        LET expected == ExpectedLookup(input) IN
        /\ rendered.r = expected.r
        /\ expected.r = "ok" => rendered.s = expected.s
        /\ expected.r = "err" =>
            rendered.e = expected.e /\ "s" \notin DOMAIN rendered

\* nofn(u): the function and its argument are both undefined, and the error
\* names the function.
C11_Witness ==
    /\ input = [kind |-> "lookup", form |-> "call", fn |-> NoFunction,
                args |-> "undefined", global |-> <<>>]
    /\ phase = "rendered"
    /\ rendered.r = "err"
    /\ rendered.e = UndefinedVariable(NoFunction)

\* The value of an operand that is not undefined.
OperandValue(o) == IF o.form = "value" THEN o.v ELSE Infinity(FALSE)

\* The combinations of operand kinds on which the spec's table defines an
\* arithmetic operator.
InTable(op, lk, rk) ==
    CASE op = "Add" ->
            \/ lk = "Number" /\ rk = "Number"
            \/ lk = "String" /\ rk \in {"String", "Number"}
            \/ lk = "Number" /\ rk = "String"
            \/ lk = "Array" /\ rk = "Array"
      [] op = "Multiply" ->
            \/ lk = "Number" /\ rk = "Number"
            \/ lk = "String" /\ rk = "Number"
            \/ lk = "Number" /\ rk = "String"
      [] op \in {"Subtract", "Divide"} -> lk = "Number" /\ rk = "Number"

\* C12: for every pair of operand kinds, + - * / succeed exactly on the
\* combinations of the spec's table and return OperationError on every other;
\* Array + Array is the left items followed by the right ones.
C12_OperationTable ==
    (/\ input.kind = "op" /\ phase = "rendered"
     /\ input.op \in {"Add", "Subtract", "Multiply", "Divide"}
     /\ input.lhs.form # "undefined" /\ input.rhs.form # "undefined") =>
        LET lhs == OperandValue(input.lhs)
            rhs == OperandValue(input.rhs)
        IN /\ InTable(input.op, lhs.k, rhs.k) => rendered.r = "ok"
           /\ ~InTable(input.op, lhs.k, rhs.k) =>
                rendered.r = "err" /\ rendered.e = OperationError
           /\ (input.op = "Add" /\ lhs.k = "Array" /\ rhs.k = "Array") =>
                rendered.s = Joined(Strings(lhs.vec \o rhs.vec), <<",", " ">>)

\* The variables an operation's operands read, left then right.
OperandTrace(in) ==
    (IF in.lhs.form = "quotient" THEN <<>> ELSE <<LeftVar>>)
    \o (IF in.rhs.form = "quotient" THEN <<>> ELSE <<RightVar>>)

\* C17: an Operation evaluates both operands, left then right, before it
\* applies the operator, `&&` and `||` included: their result is the Boolean
\* truthy(lhs) AND / OR truthy(rhs), and an error of the right operand is
\* returned even when the left operand alone would decide.
C17_BothOperandsEvaluated ==
    (input.kind = "op" /\ phase = "rendered") =>
        IF input.lhs.form = "undefined" THEN
            /\ rendered.r = "err" /\ rendered.e = UndefinedVariable(LeftVar)
            /\ rendered.trace = <<LeftVar>>
        ELSE
            /\ rendered.trace = OperandTrace(input)
            /\ input.rhs.form = "undefined" =>
                rendered.r = "err" /\ rendered.e = UndefinedVariable(RightVar)
            /\ (input.rhs.form # "undefined" /\ input.op \in {"And", "Or"}) =>
                LET l == is_truthy(OperandValue(input.lhs))
                    r == is_truthy(OperandValue(input.rhs))
                IN /\ rendered.r = "ok"
                   /\ rendered.s = to_string(BooleanValue(
                            IF input.op = "And" THEN l /\ r ELSE l \/ r))

\* false && r with r undefined: the error of r, after l was read.
C17_Witness ==
    /\ input = [kind |-> "op", op |-> "And",
                lhs |-> [form |-> "value", v |-> BooleanValue(FALSE)],
                rhs |-> [form |-> "undefined"]]
    /\ phase = "rendered"
    /\ rendered.r = "err"
    /\ rendered.e = UndefinedVariable(RightVar)
    /\ rendered.trace = <<LeftVar, RightVar>>

RECURSIVE Lookups(_, _)
\* The identifiers that Node::_evaluate can look up in the caller's variables
\* while evaluating node with the names bound in local_vars: a Variable is
\* looked up there when local_vars does not hold it, and a ForIn evaluates
\* its array and its separator with the local_vars it was given and its body
\* with its identifier added.
Lookups(node, bound) ==
    CASE node.n = "Body" ->
            UNION {Lookups(node.nodes[i], bound) : i \in 1..Len(node.nodes)}
      [] node.n = "FunctionCall" ->
            UNION {Lookups(node.args[i], bound) : i \in 1..Len(node.args)}
      [] node.n = "Array" ->
            UNION {Lookups(node.nodes[i], bound) : i \in 1..Len(node.nodes)}
      [] node.n = "Operation" ->
            Lookups(node.lhs, bound) \cup Lookups(node.rhs, bound)
      [] node.n = "IfThenElse" ->
            Lookups(node.cond, bound) \cup Lookups(node.then, bound)
            \cup (IF node.else # <<>> THEN Lookups(node.else[1], bound) ELSE {})
      [] node.n = "ForIn" ->
            Lookups(node.array, bound)
            \cup (IF node.sep # <<>> THEN Lookups(node.sep[1], bound) ELSE {})
            \cup Lookups(node.body, bound \cup {node.id})
      [] node.n = "Variable" -> IF node.id \in bound THEN {} ELSE {node.id}
      [] node.n \in {"Not", "Negate"} -> Lookups(node.node, bound)
      [] node.n = "Value" -> {}

\* C25: every identifier that the evaluation of the tree can look up in the
\* caller's variables, those of a ForIn's array and separator included, is a
\* member of referenced_vars(), and a name that is only used where a ForIn
\* binds it is not.
C25_ReferencedVarsSound ==
    references # <<>> =>
        /\ Lookups(parsed.v, {}) \subseteq references[1]
        /\ references[1] \subseteq Lookups(parsed.v, {})

-----------------------------------------------------------------------------
(* The lexer observed: yield_token called again and again on a Lexer over  *)
(* src, which is then parsed and rendered as under Spec.                    *)

\* The most calls of yield_token on one lexer.
MaxCalls == 6

\* lexer.yield_token(), called again after a token and after an error.
YieldToken ==
    /\ phase = "input"
    /\ Len(yielded) < MaxCalls
    /\ IF yielded = <<>> THEN TRUE
       ELSE yielded[Len(yielded)].r \in {"tok", "err"}
    /\ lexer' = yield_token(lexer).lx
    /\ yielded' = Append(yielded, yield_token(lexer))
    /\ UNCHANGED <<src, variables, functions, phase, parsed, rendered,
                   references, input>>

\* The bytes of a sequence of characters.
Bytes(chars) ==
    Concat([i \in 1..Len(chars) |->
                IF len_utf8(chars[i]) = 2 THEN <<chars[i], CONT>> ELSE <<chars[i]>>])

\* The most characters after the opening quote of a literal.
MaxStringChars == 3

StringChars == {"\\", "n", "'", "\"", "{", "}", "\n", WideLetter}

\* The characters of `{{'}}}}`, which follow the quote of `'{{'}}}}`.
BracesContent == <<"{", "{", "'", "}", "}", "}", "}">>

\* A quote followed by content, at the start of the source (text mode) or
\* after `{{`; the literal is closed when content holds an unescaped quote.
StringInputs ==
    {[kind |-> "string", inside |-> in, quote |-> q, content |-> c] :
        in \in BOOLEAN, q \in {"'", "\""},
        c \in SeqsUpTo(StringChars, MaxStringChars) \cup {BracesContent}}

StringSource(in) ==
    (IF in.inside THEN OPEN ELSE <<>>) \o <<in.quote>> \o Bytes(in.content)

\* Lexemes of the template language with the token each is.
Lexemes ==
    << [text |-> <<"i", "f">>, tok |-> Keyword("If")],
       [text |-> <<"a">>,      tok |-> Identifier(<<"a">>)],
       [text |-> <<"1">>,      tok |-> Literal(NumberValue(FALSE, 1, 0))],
       [text |-> <<".", "5">>, tok |-> Literal(NumberValue(FALSE, 5, 1))],
       [text |-> <<"+">>,      tok |-> Operator("Add")],
       [text |-> <<"!">>,      tok |-> Exclamation],
       [text |-> <<"=", "=">>, tok |-> Operator("IsEqualTo")] >>

\* The runs of whitespace between two tokens: none, a space, a tab and a
\* newline.
Gaps == {<<>>, <<" ">>, <<"\t", "\n">>}

\* The most lexemes between `{{` and `}}`.
MaxLexemes == 2

\* `{{`, then a run and a lexeme for each lexeme of lex, a last run, and `}}`.
WsInputs ==
    UNION {{[kind |-> "ws", lex |-> lex, gaps |-> gaps] :
                gaps \in [1..(Len(lex) + 1) -> Gaps]} :
           lex \in SeqsUpTo(1..Len(Lexemes), MaxLexemes)}

WsSource(in) ==
    OPEN
    \o Concat([i \in 1..Len(in.lex) |-> in.gaps[i] \o Lexemes[in.lex[i]].text])
    \o in.gaps[Len(in.lex) + 1] \o CLOSE

\* Pieces of source text: the delimiters, single braces, and characters
\* that are tokens inside `{{ }}` and text outside.
Pieces ==
    << OPEN, CLOSE, <<"{">>, <<"}">>, <<"a">>, <<"1">>, <<"(">>, <<"!">>,
       <<"'">>, <<WideLetter>> >>

\* The most pieces of a source.
MaxPieces == 4

\* Any sequence of pieces.
PieceInputs ==
    {[kind |-> "pieces", ix |-> ix] : ix \in SeqsUpTo(1..Len(Pieces), MaxPieces)}

PieceSource(in) == Bytes(Concat([i \in 1..Len(in.ix) |-> Pieces[in.ix[i]]]))

\* The most characters after the first of an identifier input.
MaxIdentChars == 3

\* Characters that start a lexeme of letters, and characters that follow.
IdentStarts == {"i", "_", "A"}

IdentChars == {"f", "n", "_", "1", " ", "+", WideLetter}

\* The keywords and words close to them.
Words ==
    { <<"i", "f">>, <<"e", "l", "i", "f">>, <<"e", "l", "s", "e">>,
      <<"f", "o", "r">>, <<"i", "n">>, <<"i", "f", "f">>,
      <<"f", "o", "r", "m", "a", "t">>, <<"i", "n", "_">>, <<"I", "f">>,
      <<"e", "l", "s", "e", "1">> }

\* What follows a word: nothing, or one character.
WordEnds == {<<>>, <<" ">>, <<"}">>, <<"(">>, <<"+">>, <<WideLetter>>, <<WideSpace>>}

\* `{{` followed by the characters chars.
IdentInputs ==
    {[kind |-> "ident", chars |-> <<c>> \o rest] :
        c \in IdentStarts, rest \in SeqsUpTo(IdentChars, MaxIdentChars)}
    \cup {[kind |-> "ident", chars |-> w \o e] : w \in Words, e \in WordEnds}

IdentSource(in) == OPEN \o Bytes(in.chars)

LexInputs == StringInputs \cup WsInputs \cup PieceInputs \cup IdentInputs

LexSource(in) ==
    CASE in.kind = "string" -> StringSource(in)
      [] in.kind = "ws"     -> WsSource(in)
      [] in.kind = "pieces" -> PieceSource(in)
      [] in.kind = "ident"  -> IdentSource(in)

InitLex ==
    /\ input \in LexInputs
    /\ src = LexSource(input)
    /\ variables = FragVars
    /\ functions = Functions
    /\ phase = "input"
    /\ parsed = NoResult
    /\ rendered = NoResult
    /\ lexer = LexerNew
    /\ yielded = <<>>
    /\ references = <<>>

NextLex == YieldToken \/ ParseInput \/ Evaluate

SpecLex == InitLex /\ [][NextLex]_vars

-----------------------------------------------------------------------------
(* Claims about the lexer, checked under SpecLex. *)

RECURSIVE Unquote(_, _, _, _)
\* The literal that the characters content[i..] after an opening quote spell:
\* its payload s and the number of characters read, or the error.
Unquote(content, i, quote, s) ==
    IF i > Len(content) THEN [r |-> "err", e |-> [e |-> "UnexpectedEOF"]]
    ELSE IF content[i] = quote THEN [r |-> "ok", s |-> s, read |-> i]
    ELSE IF content[i] # "\\"
         THEN Unquote(content, i + 1, quote, s \o Bytes(<<content[i]>>))
    ELSE IF i + 1 > Len(content) THEN [r |-> "err", e |-> [e |-> "UnexpectedEOF"]]
    ELSE LET next == content[i + 1] IN
         CASE next = "n"   -> Unquote(content, i + 2, quote, s \o <<"\n">>)
           [] next = "\\"  -> Unquote(content, i + 2, quote, s \o <<"\\">>)
           [] next = quote -> Unquote(content, i + 2, quote, s \o <<quote>>)
           [] next = "\n"  -> Unquote(content, i + 2, quote, s)
           [] OTHER ->
                [r |-> "err", e |-> [e |-> "UnrecognizedEscape", c |-> next]]

\* The call of yield_token that meets the quote of a string input.
QuoteCall(in) == IF in.inside THEN 2 ELSE 1

\* C14: the payload of a literal opened by quote q is the characters up to the
\* first unescaped q, with \n a newline, \\ a backslash, \q the quote and
\* backslash-newline nothing, every other character (the other quote, `{{`
\* and `}}` too) copied and the lexer's mode unchanged; another escape is
\* UnrecognizedEscape and the end of the source before q is UnexpectedEOF.
\* So `{{'{{'}}}}` lexes to `{{`, the literal {{, `}}` and the text }}, and
\* renders {{}}.
C14_StringLiteral ==
    (input.kind = "string" /\ Len(yielded) >= QuoteCall(input)) =>
        LET y        == yielded[QuoteCall(input)]
            expected == Unquote(input.content, 1, input.quote, <<>>)
        IN /\ expected.r = "ok" =>
                /\ y.r = "tok"
                /\ y.tok = Literal(StringValue(expected.s))
                /\ y.lx.is_inside_template = input.inside
                /\ y.lx.cursor =
                        Len(src) - Len(Bytes(SubSeq(input.content, expected.read + 1,
                                                    Len(input.content))))
           /\ expected.r = "err" => y.r = "err" /\ y.e = expected.e
           /\ (input.inside /\ input.quote = "'" /\ input.content = BracesContent
               /\ Len(yielded) = 5) =>
                /\ [i \in 1..4 |-> yielded[i].tok] =
                        <<TemplateOpen, Literal(StringValue(OPEN)), TemplateClose,
                          Text(CLOSE)>>
                /\ yielded[5].r = "none"
           /\ (input.inside /\ input.quote = "'" /\ input.content = BracesContent
               /\ phase = "rendered") =>
                rendered.r = "ok" /\ rendered.s = OPEN \o CLOSE

\* `{{'{{'}}}}` lexed to its end and rendered.
C14_Witness ==
    /\ input = [kind |-> "string", inside |-> TRUE, quote |-> "'",
                content |-> BracesContent]
    /\ Len(yielded) = 5
    /\ yielded[2].tok = Literal(StringValue(OPEN))
    /\ yielded[4].tok = Text(CLOSE)
    /\ yielded[5].r = "none"
    /\ phase = "rendered"
    /\ rendered.s = OPEN \o CLOSE

\* The lexing of src has ended: the last call returned None or an error and
\* every call before it a token.
Ended ==
    /\ yielded # <<>>
    /\ yielded[Len(yielded)].r \in {"none", "err"}
    /\ \A i \in 1..(Len(yielded) - 1) : yielded[i].r = "tok"

\* The tokens of a whitespace input, whatever its runs of whitespace.
WsTokens(in) ==
    <<TemplateOpen>> \o [i \in 1..Len(in.lex) |-> Lexemes[in.lex[i]].tok]
    \o <<TemplateClose>>

\* The calls of yield_token returned exactly tokens and then None.
Yielded(tokens) ==
    /\ Len(yielded) = Len(tokens) + 1
    /\ \A i \in 1..Len(tokens) : yielded[i].r = "tok" /\ yielded[i].tok = tokens[i]
    /\ yielded[Len(yielded)].r = "none"

Merges(l, r) ==
    \/ l \in {1, 2} /\ r \in {1, 2, 3}
    \/ l \in {3, 4} /\ r \in {3, 4}
    \/ l = 6 /\ r = 7

\* Every empty run of the input stands between two lexemes that stay apart.
StayApart(in) ==
    \A i \in 1..(Len(in.lex) - 1) :
        in.gaps[i + 1] = <<>> => ~Merges(in.lex[i], in.lex[i + 1])

Emitted(tok, i) ==
    Cardinality({j \in 1..i : yielded[j].r = "tok" /\ yielded[j].tok = tok})

\* is_inside_template before the i-th call of yield_token.
FlagBefore(i) ==
    IF i = 1 THEN LexerNew.is_inside_template
    ELSE yielded[i - 1].lx.is_inside_template

\* Parenthesis, bracket, comma, operator (the `!` of Not too), keyword,
\* identifier and number tokens.
IsTemplateToken(tok) ==
    \/ tok.t \in {"OpeningParen", "ClosingParen", "OpeningSqBracket",
                  "ClosingSqBracket", "Comma", "Operator", "Exclamation",
                  "Keyword", "Identifier"}
    \/ tok.t = "Literal" /\ tok.v.k = "Number"

\* C19: TemplateOpen and TemplateClose alternate, TemplateOpen first; after
\* every call of yield_token is_inside_template is true exactly when more
\* TemplateOpen than TemplateClose tokens were emitted; Text is emitted only
\* by a call that starts with the flag false, and parenthesis, bracket, comma,
\* operator, keyword, identifier and number tokens only by one that starts
\* with it true.
C19_TemplateFlag ==
    \A i \in 1..Len(yielded) :
        LET y      == yielded[i]
            opens  == Emitted(TemplateOpen, i)
            closes == Emitted(TemplateClose, i)
        IN /\ opens - closes \in {0, 1}
           /\ y.lx.is_inside_template = (opens > closes)
           /\ y.r = "tok" =>
                /\ y.tok = TemplateOpen => ~FlagBefore(i)
                /\ y.tok = TemplateClose => FlagBefore(i)
                /\ y.tok.t = "Text" => ~FlagBefore(i)
                /\ IsTemplateToken(y.tok) => FlagBefore(i)

\* `({{(}}` lexed to its end: the text (, `{{`, the parenthesis, `}}`.
C19_Witness ==
    /\ input = [kind |-> "pieces", ix |-> <<7, 1, 7, 2>>]
    /\ Len(yielded) = 5
    /\ [i \in 1..4 |-> yielded[i].tok] =
            <<Text(<<"(">>), TemplateOpen, OpeningParen, TemplateClose>>
    /\ yielded[3].lx.is_inside_template
    /\ ~yielded[4].lx.is_inside_template
    /\ yielded[5].r = "none"

\* The cursor before the i-th call of yield_token.
CursorBefore(i) ==
    IF i = 1 THEN LexerNew.cursor ELSE yielded[i - 1].lx.cursor

\* C20: whatever the source and however often yield_token is called, no call
\* panics on a slice (the slices of yield_string at cursor - 2 and cursor - 1
\* and of backup included), and after each call the cursor is not less than
\* before it, not beyond the end of src and on a character boundary, as is
\* token_start_byte.
C20_CursorOnBoundary ==
    \A i \in 1..Len(yielded) :
        LET lx == yielded[i].lx
        IN /\ yielded[i].r # "panic"
           /\ ~lx.panicked
           /\ CursorBefore(i) <= lx.cursor
           /\ lx.cursor <= Len(src)
           /\ IsBoundary(lx.cursor)
           /\ IsBoundary(lx.token_start_byte)

\* `{{!` followed by a two-byte letter: `!` is lexed by backing up over the
\* letter, which the next call rejects with the cursor at the end of src.
C20_Witness ==
    /\ input = [kind |-> "pieces", ix |-> <<1, 8, 10>>]
    /\ Len(yielded) = 3
    /\ yielded[2].r = "tok" /\ yielded[2].tok = Exclamation
    /\ yielded[2].lx.cursor = 3
    /\ yielded[3].r = "err"
    /\ yielded[3].e = [e |-> "UnexpectedCharacter", c |-> WideLetter]
    /\ yielded[3].lx.cursor = 5 /\ Len(src) = 5

\* [A-Za-z0-9_]
IsWordChar(c) == c \in LowerLetters \cup UpperLetters \cup Digits \cup {"_"}

RECURSIVE WordPrefix(_)
\* The longest prefix of chars in [A-Za-z0-9_].
WordPrefix(chars) ==
    IF chars = <<>> \/ ~IsWordChar(Head(chars)) THEN <<>>
    ELSE <<Head(chars)>> \o WordPrefix(Tail(chars))

\* The token of a lexeme of letters, digits and `_`.
WordToken(lexeme) ==
    CASE lexeme = <<"i", "f">>           -> Keyword("If")
      [] lexeme = <<"e", "l", "i", "f">> -> Keyword("Elif")
      [] lexeme = <<"e", "l", "s", "e">> -> Keyword("Else")
      [] lexeme = <<"f", "o", "r">>      -> Keyword("For")
      [] lexeme = <<"i", "n">>           -> Keyword("In")
      [] OTHER                           -> Identifier(lexeme)

\* C22: after `{{`, a lexeme that starts with an ASCII letter or `_` extends
\* over exactly the following characters in [A-Za-z0-9_] and stops at any
\* other character; it is a Keyword iff it is if, elif, else, for or in, and
\* otherwise the Identifier carrying the lexeme.
C22_IdentifierLexeme ==
    (input.kind = "ident" /\ Len(yielded) >= 2) =>
        LET lexeme == WordPrefix(input.chars)
        IN /\ yielded[2].r = "tok"
           /\ yielded[2].tok = WordToken(lexeme)
           /\ yielded[2].lx.cursor = Len(OPEN) + Len(lexeme)

\* C24: a call of yield_token that returns a token or an error has moved the
\* cursor forward (the re-entries after whitespace and after a lone `{`
\* included, which start behind the characters already read); a call returns
\* None only with the cursor at the end of src, and from the end of src it
\* returns None and leaves the lexer as it is, so every further call does;
\* and a parse that returned has taken no more tokens from the lexer than src
\* has bytes.
C24_LexingTerminates ==
    /\ \A i \in 1..Len(yielded) :
            LET y == yielded[i]
            IN /\ y.r \in {"tok", "err", "none"}
               /\ y.r \in {"tok", "err"} => y.lx.cursor > CursorBefore(i)
               /\ y.r = "none" => y.lx.cursor = Len(src)
    /\ lexer.cursor = Len(src) =>
            yield_token(lexer) = [r |-> "none", lx |-> lexer]
    /\ (phase # "input" /\ parsed.r \in {"ok", "err"}) =>
            /\ Len(parsed.p.handed) + Len(parsed.p.buffer) <= Len(src)
            /\ parsed.r = "ok" => parsed.p.lx.cursor = Len(src)

\* `{a{{a` lexed to its end and parsed: the lone `{` starts the text {a, the
\* fourth call returns None at the end of src, and the parse has returned.
C24_Witness ==
    /\ input = [kind |-> "pieces", ix |-> <<3, 5, 1, 5>>]
    /\ Len(yielded) = 4
    /\ yielded[1].tok = Text(<<"{", "a">>)
    /\ yielded[4].r = "none"
    /\ lexer.cursor = Len(src)
    /\ phase = "parsed"
    /\ parsed.r = "err" /\ parsed.e = UnexpectedEOF

=========================================================================
